---- MODULE Spec2Model ----
(***************************************************************************)
(* Model of the diversified mutual fund recommendation pipeline of         *)
(* backend/app/diversified_portfolio_system.py: candidate filter,          *)
(* per-fund prediction, composite score, top-N shortlist, diversified      *)
(* pair selection and plan building.                                       *)
(*                                                                         *)
(* Numbers.  The code computes in floating point; the model computes in    *)
(* exact fixed point.  Weights of the composite score are in hundredths,   *)
(* the composite score is in hundredths of a score unit, the              *)
(* diversification score is in 1/10000, size_diff_norm and the standard    *)
(* deviation are in thousandths (floor of the real value).  Amounts are    *)
(* compared with investment_amount/2 as 2*min <= amount.                   *)
(***************************************************************************)
EXTENDS Integers, Sequences, FiniteSets, TLC

\* ------------------------------------------------------------------ bounds

\* Largest number of rows of the fund universe (self.df).
MaxFunds == 3
\* Largest explicit top_n passed to get_diversified_recommendations.
MaxTopN == 2

\* ------------------------------------------------------- program constants

\* top_n=10, the default of get_diversified_recommendations.
DefaultTopN == 10

\* weights = {...}: the five weights of the composite score, in hundredths.
W_predicted_return == 40
W_risk_adjusted_score == 20
W_stability_score == 15
W_cost_efficiency == 15
W_rating == 10

\* 'allocation_percentage' = 50.0
AllocationPercentage == 50

\* The 0.001 added to the standard deviation, in thousandths.
Epsilon == 1

\* The four weights of the diversification score, in tenths.
D_risk == 3
D_category == 3
D_amc == 2
D_size == 2

\* ------------------------------------------------------------- fund records

\* f'return_{horizon}yr'
TargetCol(horizon) ==
    CASE horizon = 1 -> "return_1yr"
      [] horizon = 3 -> "return_3yr"
      [] horizon = 5 -> "return_5yr"
      [] OTHER -> "return_?yr"

\* main_categories of calculate_category_difference, in list order.
main_categories == <<"Equity", "Hybrid", "Debt", "Other">>

\* The category_<name> columns of the dataset.
CategoryColumns == {main_categories[i] : i \in 1..Len(main_categories)}

\* One row of the dataset.  missing holds the horizons whose historical
\* return is NaN; pred is what the horizon's model predicts for the row's
\* features (p holds the 1-year and the 3-year prediction; no state of the
\* model has a 5-year predictor); bad_features says the row makes
\* model.predict raise.
Fund(name, amc, cats, subs, sip, lump, risk, miss, size, rating, q, p, bad) ==
    [scheme_name |-> name, amc_name |-> amc,
     category |-> cats, sub_category |-> subs,
     min_sip |-> sip, min_lumpsum |-> lump, risk_level |-> risk,
     missing |-> miss, fund_size |-> size, rating |-> rating,
     risk_adjusted_score |-> q[1], stability_score |-> q[2],
     cost_efficiency |-> q[3],
     pred |-> (1 :> p[1] @@ 3 :> p[2] @@ 5 :> p[2]), bad_features |-> bad]

\* The rows the universes of the model are drawn from, in dataset order.
Pool ==
    << Fund("F1", "X", {"Equity"}, {"Large"}, 500, 5000, 3, {}, 1, 4,
            <<5, 4, 4>>, <<12, 15>>, FALSE),
       Fund("F2", "X", {"Equity"}, {"Large"}, 500, 5000, 3, {}, 1, 4,
            <<5, 4, 4>>, <<12, 15>>, FALSE),
       Fund("F3", "X", {"Equity"}, {"Mid"}, 1000, 1000, 4, {}, 2, 3,
            <<3, 3, 3>>, <<3, 3>>, FALSE),
       Fund("F4", "Y", {"Debt"}, {}, 3000, 1000, 5, {}, 4, 5,
            <<3, 6, 2>>, <<14, 9>>, FALSE),
       Fund("F5", "Y", {"Hybrid"}, {"Mid"}, 3000, 2500, 5, {3}, 1, 2,
            <<6, 2, 2>>, <<9, 11>>, FALSE),
       Fund("F6", "Z", {"Equity"}, {"Small"}, 3000, 5000, 6, {}, 2, 3,
            <<2, 2, 2>>, <<20, 18>>, FALSE),
       Fund("F7", "Z", {"Debt"}, {"Large"}, 100, 500, 1, {}, 4, 5,
            <<6, 6, 6>>, <<6, 7>>, TRUE),
       Fund("F8", "Y", {}, {"Mid"}, 500, 500, 3, {1}, 2, 1,
            <<1, 1, 1>>, <<8, 8>>, FALSE),
       Fund("F9", "Z", {"Other"}, {}, 5000, 10000, 4, {}, 4, 4,
            <<4, 4, 4>>, <<11, 11>>, FALSE) >>

VARIABLES
    df,               \* self.df: the fund universe, a sequence of rows
    models,           \* self.models: the target columns with a loaded model
    feature_columns,  \* self.feature_columns: target -> list of column names
    pc,               \* "idle" | "returned": position of the one request
    req,              \* the arguments of the request in hand
    out               \* what the call returned or raised

vars == <<df, models, feature_columns, pc, req, out>>

\* ------------------------------------------------------------ pure helpers

Abs(x) == IF x < 0 THEN -x ELSE x

Min2(a, b) == IF a <= b THEN a ELSE b

RECURSIVE SumSeq(_)
SumSeq(s) == IF s = <<>> THEN 0 ELSE Head(s) + SumSeq(Tail(s))

\* floor(sqrt(v)) by bisection on lo..hi.
RECURSIVE ISqrtIn(_, _, _)
ISqrtIn(v, lo, hi) ==
    IF lo >= hi THEN lo
    ELSE LET mid == (lo + hi + 1) \div 2
         IN  IF mid * mid <= v THEN ISqrtIn(v, mid, hi)
             ELSE ISqrtIn(v, lo, mid - 1)

ISqrt(v) == ISqrtIn(v, 0, 40000)

\* Series.std() (ddof=1) of a sequence of at least two sizes, in thousandths.
StdMilli(sizes) ==
    LET n  == Len(sizes)
        s1 == SumSeq(sizes)
        s2 == SumSeq([k \in 1..n |-> sizes[k] * sizes[k]])
    IN  ISqrt(((n * s2 - s1 * s1) * 1000000) \div (n * (n - 1)))

\* ------------------------------------------------------- candidate filter

\* Mutant: the 'aggressive' entry is missing.
risk_mappingNoAggressive ==
    ("conservative" :> <<1, 3>>) @@ ("moderate" :> <<3, 5>>)

\* Mutant: an unknown label falls back to the moderate range.
risk_mappingWithDefault ==
    ("conservative" :> <<1, 3>>) @@ ("moderate" :> <<3, 5>>)
        @@ ("aggressive" :> <<5, 6>>) @@ ("extreme" :> <<3, 5>>)

\* risk_mapping of get_diversified_recommendations.
risk_mapping ==
    ("conservative" :> <<1, 3>>) @@ ("moderate" :> <<3, 5>>)
        @@ ("aggressive" :> <<5, 6>>)

\* Mutant: the minimums are compared with the whole amount.
AffordableWholeAmount(fund, investment_amount) ==
    \/ fund.min_sip <= investment_amount
    \/ fund.min_lumpsum <= investment_amount

\* Mutant: both minimums must fit in half the amount.
AffordableBoth(fund, investment_amount) ==
    /\ 2 * fund.min_sip <= investment_amount
    /\ 2 * fund.min_lumpsum <= investment_amount

\* (min_sip <= investment_amount/2) | (min_lumpsum <= investment_amount/2)
Affordable(fund, investment_amount) ==
    \/ 2 * fund.min_sip <= investment_amount
    \/ 2 * fund.min_lumpsum <= investment_amount

AffordabilityStep(df_filtered, investment_amount) ==
    SelectSeq(df_filtered, LAMBDA i : Affordable(df[i], investment_amount))

\* Mutant: the bounds of the risk range are excluded.
RiskStepExclusive(df_filtered, min_risk, max_risk) ==
    SelectSeq(df_filtered,
              LAMBDA i : df[i].risk_level > min_risk
                         /\ df[i].risk_level < max_risk)

\* Mutant: the risk mask is applied to self.df, not to df_filtered.
RiskStepFromUniverse(df_filtered, min_risk, max_risk) ==
    SelectSeq([i \in 1..Len(df) |-> i],
              LAMBDA i : df[i].risk_level >= min_risk
                         /\ df[i].risk_level <= max_risk)

\* df_filtered[(risk_level >= min_risk) & (risk_level <= max_risk)]
RiskStep(df_filtered, min_risk, max_risk) ==
    SelectSeq(df_filtered,
              LAMBDA i : df[i].risk_level >= min_risk
                         /\ df[i].risk_level <= max_risk)

\* Mutant: the category mask is applied to self.df, not to df_filtered.
CategoryStepFromUniverse(df_filtered, category_preference) ==
    IF category_preference # "" /\ category_preference \in CategoryColumns
    THEN SelectSeq([i \in 1..Len(df) |-> i],
                   LAMBDA i : category_preference \in df[i].category)
    ELSE df_filtered

\* Mutant: a preference that names no column empties the candidate set.
CategoryStepUnknownDropsAll(df_filtered, category_preference) ==
    IF category_preference = "" THEN df_filtered
    ELSE SelectSeq(df_filtered,
                   LAMBDA i : category_preference \in df[i].category)

\* if category_preference: ... if category_col in df_filtered.columns: ...
\* The empty string stands for None (both are falsy).
CategoryStep(df_filtered, category_preference) ==
    IF category_preference # "" /\ category_preference \in CategoryColumns
    THEN SelectSeq(df_filtered,
                   LAMBDA i : category_preference \in df[i].category)
    ELSE df_filtered

\* Mutant: rows with a missing target return are kept.
CompletenessStepSkipped(df_filtered, horizon) == df_filtered

\* dropna(subset=[target_col])
CompletenessStep(df_filtered, horizon) ==
    SelectSeq(df_filtered, LAMBDA i : horizon \notin df[i].missing)

\* The three narrowing steps that follow the affordability step, for a risk
\* range already looked up.
NarrowAfterAffordability(afforded, min_risk, max_risk, category, horizon) ==
    CompletenessStep(
        CategoryStep(RiskStep(afforded, min_risk, max_risk), category),
        horizon)

\* self.df.copy(): every row label of the universe, in order.
AllRows == [i \in 1..Len(df) |-> i]

\* The candidate set of a request whose risk range is (min_risk, max_risk).
CandidateFilter(investment_amount, horizon, min_risk, max_risk, category) ==
    NarrowAfterAffordability(AffordabilityStep(AllRows, investment_amount),
                             min_risk, max_risk, category, horizon)

\* ------------------------------------------------------------- prediction

\* The columns of self.df, which are the keys of every fund_row.to_dict().
DatasetColumns ==
    {"scheme_name", "amc_name", "min_sip", "min_lumpsum", "risk_level",
     "fund_size", "rating", "risk_adjusted_score", "stability_score",
     "cost_efficiency", "return_1yr", "return_3yr", "return_5yr"}
        \cup CategoryColumns

\* feature_cols as prepare_features derives them from the dataset in use.
TrainedFeatureCols ==
    <<"min_sip", "min_lumpsum", "risk_level", "fund_size", "rating",
      "risk_adjusted_score", "stability_score", "cost_efficiency">>

\* feature_columns of an artifact trained on a dataset that had one more
\* column: self.df has no such column, hence no median for it.
StaleFeatureCols == TrainedFeatureCols \o <<"sortino">>

\* The required columns that are not keys of the row dict; for each of them
\* the call evaluates self.df[col].median(), which raises KeyError.
MissingColumns(feature_cols) ==
    {feature_cols[k] : k \in 1..Len(feature_cols)} \ DatasetColumns

\* predict_fund_returns: what the call does for one row.  It raises when the
\* horizon has no model, when the horizon has no feature-column list, when a
\* required column is not a column of the dataset, and when model.predict
\* rejects the row's features; otherwise it returns the model's prediction.
PredictFundReturns(fund, horizon) ==
    IF TargetCol(horizon) \notin models
    THEN [raised |-> "ValueError", value |-> 0]
    ELSE IF TargetCol(horizon) \notin DOMAIN feature_columns
    THEN [raised |-> "KeyError", value |-> 0]
    ELSE IF MissingColumns(feature_columns[TargetCol(horizon)]) # {}
    THEN [raised |-> "KeyError", value |-> 0]
    ELSE IF fund.bad_features
    THEN [raised |-> "ValueError", value |-> 0]
    ELSE [raised |-> "none", value |-> fund.pred[horizon]]

\* Mutant: a row whose prediction raised is kept.
FundIndicesKeepAll(df_filtered, horizon) == df_filtered

\* The loop over df_filtered.iterrows(): fund_indices, the labels of the rows
\* whose prediction did not raise, in order.
FundIndices(df_filtered, horizon) ==
    SelectSeq(df_filtered,
              LAMBDA i : PredictFundReturns(df[i], horizon).raised = "none")

\* ---------------------------------------------------------------- scoring

\* The sum of the five weights, in hundredths.
WeightSum ==
    W_predicted_return + W_risk_adjusted_score + W_stability_score
        + W_cost_efficiency + W_rating

\* Mutant: the rating weighs 0.20 and not 0.10.
ComprehensiveScoreHeavyRating(fund, predicted_return) ==
    W_predicted_return * predicted_return
        + W_risk_adjusted_score * fund.risk_adjusted_score
        + W_stability_score * fund.stability_score
        + W_cost_efficiency * fund.cost_efficiency
        + 2 * W_rating * fund.rating

\* df_with_predictions['comprehensive_score'], in hundredths.
ComprehensiveScore(fund, predicted_return) ==
    W_predicted_return * predicted_return
        + W_risk_adjusted_score * fund.risk_adjusted_score
        + W_stability_score * fund.stability_score
        + W_cost_efficiency * fund.cost_efficiency
        + W_rating * fund.rating

\* One row of df_with_predictions: the row label and the two added columns.
ScoredRow(i, horizon) ==
    LET p == PredictFundReturns(df[i], horizon).value
    IN  [idx |-> i, predicted_return |-> p,
         comprehensive_score |-> ComprehensiveScore(df[i], p)]

DfWithPredictions(fund_indices, horizon) ==
    [k \in 1..Len(fund_indices) |-> ScoredRow(fund_indices[k], horizon)]

\* Position of the first row of rows with the largest comprehensive_score.
FirstMax(rows) ==
    CHOOSE k \in 1..Len(rows) :
        /\ \A j \in 1..Len(rows) :
               rows[j].comprehensive_score <= rows[k].comprehensive_score
        /\ \A j \in 1..(k - 1) :
               rows[j].comprehensive_score < rows[k].comprehensive_score

RemoveAt(s, k) == SubSeq(s, 1, k - 1) \o SubSeq(s, k + 1, Len(s))

\* Mutant: the first n rows, unsorted.
NLargestHead(n, rows) ==
    SubSeq(rows, 1, IF n < Len(rows) THEN n ELSE Len(rows))

\* DataFrame.nlargest(n, 'comprehensive_score'), keep='first': the n rows of
\* largest score in descending order, equal scores in their original order.
RECURSIVE NLargest(_, _)
NLargest(n, rows) ==
    IF n <= 0 \/ rows = <<>> THEN <<>>
    ELSE LET k == FirstMax(rows)
         IN  <<rows[k]>> \o NLargest(n - 1, RemoveAt(rows, k))

\* --------------------------------------------------- diversified selection

\* fund_main of calculate_category_difference: the last main category, in
\* list order, whose flag is true; "None" when no flag is true.
RECURSIVE MainFrom(_, _, _)
MainFrom(fund, k, found) ==
    IF k > Len(main_categories) THEN found
    ELSE MainFrom(fund, k + 1,
                  IF main_categories[k] \in fund.category
                  THEN main_categories[k] ELSE found)

\* Mutant: a fund without a main category gets a category of its own.
MainCategoryOwnNone(fund) ==
    IF fund.category = {} THEN fund.scheme_name ELSE MainFrom(fund, 1, "None")

MainCategory(fund) == MainFrom(fund, 1, "None")

\* Mutant: disjoint sub-categories under one main category count as equal.
CalculateCategoryDifferenceNoHalf(fund1, fund2) ==
    IF MainCategory(fund1) # MainCategory(fund2) THEN 2 ELSE 0

\* calculate_category_difference, as twice its value: 2 for 1.0, 1 for 0.5,
\* 0 for 0.0.
CalculateCategoryDifference(fund1, fund2) ==
    IF MainCategory(fund1) # MainCategory(fund2) THEN 2
    ELSE IF fund1.sub_category \cap fund2.sub_category = {} THEN 1
    ELSE 0

\* Mutant: the normalised difference is not clamped.
SizeDiffNormUnclamped(fund, best_fund, top_funds) ==
    LET size_diff == Abs(fund.fund_size - best_fund.fund_size)
        sizes == [k \in 1..Len(top_funds) |-> df[top_funds[k].idx].fund_size]
    IN  (size_diff * 1000000) \div (StdMilli(sizes) + Epsilon)

\* min(size_diff / (top_funds['fund_size'].std() + 0.001), 1), in thousandths.
SizeDiffNorm(fund, best_fund, top_funds) ==
    LET size_diff == Abs(fund.fund_size - best_fund.fund_size)
        sizes == [k \in 1..Len(top_funds) |-> df[top_funds[k].idx].fund_size]
    IN  Min2((size_diff * 1000000) \div (StdMilli(sizes) + Epsilon), 1000)

\* Mutant: the risk difference keeps its sign.
RiskDiffSigned(fund, best_fund) == fund.risk_level - best_fund.risk_level

\* risk_diff = abs(fund['risk_level'] - best_fund['risk_level'])
RiskDiff(fund, best_fund) == Abs(fund.risk_level - best_fund.risk_level)

\* amc_diff = 1 if fund['amc_name'] != best_fund['amc_name'] else 0
AmcDiff(fund, best_fund) ==
    IF fund.amc_name # best_fund.amc_name THEN 1 ELSE 0

\* Mutant: the AMC term is left out of the score.
DivScoreNoAmc(fund, best_fund, top_funds) ==
    LET risk_diff == RiskDiff(fund, best_fund)
        category_diff == CalculateCategoryDifference(fund, best_fund)
    IN  D_risk * 1000 * risk_diff + D_category * 500 * category_diff
            + D_size * SizeDiffNorm(fund, best_fund, top_funds)

\* div_score of one remaining fund against best_fund, in 1/10000.
DivScore(fund, best_fund, top_funds) ==
    LET risk_diff == RiskDiff(fund, best_fund)
        category_diff == CalculateCategoryDifference(fund, best_fund)
        amc_diff == AmcDiff(fund, best_fund)
    IN  D_risk * 1000 * risk_diff + D_category * 500 * category_diff
            + D_amc * 1000 * amc_diff
            + D_size * SizeDiffNorm(fund, best_fund, top_funds)

\* Mutant: the last position holding the largest value.
ArgMaxLast(scores) ==
    CHOOSE k \in 1..Len(scores) :
        /\ \A j \in 1..Len(scores) : scores[j] <= scores[k]
        /\ \A j \in (k + 1)..Len(scores) : scores[j] < scores[k]

\* np.argmax: the first position holding the largest value.
ArgMax(scores) ==
    CHOOSE k \in 1..Len(scores) :
        /\ \A j \in 1..Len(scores) : scores[j] <= scores[k]
        /\ \A j \in 1..(k - 1) : scores[j] < scores[k]

\* Mutant: the best fund stays among the remaining funds.
RemainingFundsWithBest(top_funds) == top_funds

\* top_funds.iloc[1:]
RemainingFunds(top_funds) == Tail(top_funds)

\* A row of the returned frame without the two allocation columns.
Unallocated(row) ==
    [idx |-> row.idx, predicted_return |-> row.predicted_return,
     comprehensive_score |-> row.comprehensive_score,
     allocated |-> FALSE, suggested_allocation |-> [num |-> 0, den |-> 1],
     allocation_percentage |-> 0]

\* Mutant: the whole amount is allocated to each fund.
AllocatedWholeAmount(row, investment_amount) ==
    [idx |-> row.idx, predicted_return |-> row.predicted_return,
     comprehensive_score |-> row.comprehensive_score,
     allocated |-> TRUE,
     suggested_allocation |-> [num |-> 2 * investment_amount, den |-> 2],
     allocation_percentage |-> AllocationPercentage]

\* selected_funds['suggested_allocation'] = investment_amount / 2
\* selected_funds['allocation_percentage'] = 50.0
Allocated(row, investment_amount) ==
    [idx |-> row.idx, predicted_return |-> row.predicted_return,
     comprehensive_score |-> row.comprehensive_score,
     allocated |-> TRUE,
     suggested_allocation |-> [num |-> investment_amount, den |-> 2],
     allocation_percentage |-> AllocationPercentage]

\* Mutant: the best fund is the last row of the shortlist.
BestFundLast(top_funds) == top_funds[Len(top_funds)]

\* best_fund = top_funds.iloc[0]
BestFund(top_funds) == top_funds[1]

\* Mutant: only the best fund is selected.
SelectedFundsBestOnly(top_funds) == <<top_funds[1]>>

\* The two rows picked from a shortlist of at least two rows.
SelectedFunds(top_funds) ==
    LET best_fund == BestFund(top_funds)
        remaining_funds == RemainingFunds(top_funds)
        diversification_scores ==
            [k \in 1..Len(remaining_funds) |->
                DivScore(df[remaining_funds[k].idx], df[best_fund.idx],
                         top_funds)]
    IN  IF diversification_scores # <<>>
        THEN <<best_fund, remaining_funds[ArgMax(diversification_scores)]>>
        ELSE SubSeq(top_funds, 1, Min2(2, Len(top_funds)))

\* Mutant: the guard on a shortlist of fewer than two rows is missing.
SelectDiversifiedPairUnguarded(top_funds, investment_amount) ==
    LET selected_funds == SelectedFunds(top_funds)
    IN  [k \in 1..Len(selected_funds) |->
            Allocated(selected_funds[k], investment_amount)]

\* select_diversified_pair
SelectDiversifiedPair(top_funds, investment_amount) ==
    IF Len(top_funds) < 2
    THEN [k \in 1..Len(top_funds) |-> Unallocated(top_funds[k])]
    ELSE LET selected_funds == SelectedFunds(top_funds)
         IN  [k \in 1..Len(selected_funds) |->
                 Allocated(selected_funds[k], investment_amount)]

\* ------------------------------------------------------------ the pipeline

\* len(df_filtered) < 2
InsufficientCandidates(df_filtered) == Len(df_filtered) < 2

\* len(predicted_returns) < 2
PredictionFailure(fund_indices) == Len(fund_indices) < 2

\* What a call of get_diversified_recommendations leaves behind: the
\* exception it raised ("none" when it returned), the returned message and
\* frame (picks), the narrowing statements it executed, its df_filtered when
\* it ended, and the shortlist handed to select_diversified_pair.
Ended(raised, message, picks, steps, df_filtered, called, top_funds) ==
    [raised |-> raised, message |-> message, picks |-> picks,
     steps |-> steps, df_filtered |-> df_filtered,
     selector_called |-> called, top_funds |-> top_funds]

FilterSteps == <<"affordability", "risk", "category", "completeness">>

\* Lines 313-357: prediction, scoring, shortlist and selection over a
\* candidate set of at least two rows.
ScoreAndSelect(df_filtered, investment_amount, horizon, top_n) ==
    LET fund_indices == FundIndices(df_filtered, horizon)
    IN  IF PredictionFailure(fund_indices)
        THEN Ended("none", "Unable to generate predictions", <<>>,
                   FilterSteps, df_filtered, FALSE, <<>>)
        ELSE LET top_funds ==
                     NLargest(top_n, DfWithPredictions(fund_indices, horizon))
             IN  Ended("none", "Selected top 2 diversified funds",
                       SelectDiversifiedPair(top_funds, investment_amount),
                       FilterSteps, df_filtered, TRUE, top_funds)

\* get_diversified_recommendations
GetDiversifiedRecommendations(investment_amount, horizon, risk_tolerance, category_preference, top_n) ==
    IF TargetCol(horizon) \notin models
    THEN Ended("ValueError", "", <<>>, <<>>, AllRows, FALSE, <<>>)
    ELSE
    LET afforded == AffordabilityStep(AllRows, investment_amount)
    IN  IF risk_tolerance \notin DOMAIN risk_mapping
        THEN Ended("KeyError", "", <<>>, <<"affordability">>, afforded,
                   FALSE, <<>>)
        ELSE
        LET min_risk == risk_mapping[risk_tolerance][1]
            max_risk == risk_mapping[risk_tolerance][2]
            df_filtered ==
                NarrowAfterAffordability(afforded, min_risk, max_risk,
                                         category_preference, horizon)
        IN  IF InsufficientCandidates(df_filtered)
            THEN Ended("none", "Insufficient funds match your criteria",
                       <<>>, FilterSteps, df_filtered, FALSE, <<>>)
            ELSE ScoreAndSelect(df_filtered, investment_amount, horizon,
                                top_n)

\* ------------------------------------------------------------ plan builder

\* f"{x:,.0f}" of num/2: rounded to the nearest integer, a half to the even
\* neighbour.
RoundHalfEven(alloc) ==
    LET q == alloc.num \div 2
    IN  IF alloc.den = 1 THEN alloc.num
        ELSE IF alloc.num % 2 = 0 THEN q
        ELSE IF q % 2 = 0 THEN q ELSE q + 1

\* fund_info of generate_investment_plan for the rank-th returned row.
FundInfo(rank, fund, horizon) ==
    [rank |-> rank,
     scheme_name |-> df[fund.idx].scheme_name,
     amc_name |-> df[fund.idx].amc_name,
     predicted_return |-> fund.predicted_return,
     risk_level |-> df[fund.idx].risk_level,
     rating |-> df[fund.idx].rating,
     suggested_allocation |-> RoundHalfEven(fund.suggested_allocation),
     allocation_percentage |-> fund.allocation_percentage,
     min_sip |-> df[fund.idx].min_sip,
     min_lumpsum |-> df[fund.idx].min_lumpsum,
     comprehensive_score |-> fund.comprehensive_score,
     fund_size |-> df[fund.idx].fund_size]

NoAnalysis == [risk |-> <<>>, amc |-> <<>>, size |-> <<>>]

\* plan['diversification_analysis'] of the first two returned rows.
DiversificationAnalysis(fund1, fund2) ==
    [risk |-> <<df[fund1.idx].risk_level, df[fund2.idx].risk_level>>,
     amc |-> <<df[fund1.idx].amc_name, df[fund2.idx].amc_name>>,
     size |-> <<df[fund1.idx].fund_size, df[fund2.idx].fund_size>>]

\* The result generate_investment_plan returns; recommendations_is_none says
\* the 'recommendations' entry is None and not a list.
Plan(status, message, is_none, recommendations, has_analysis, analysis) ==
    [status |-> status, message |-> message,
     recommendations_is_none |-> is_none,
     recommendations |-> recommendations,
     has_diversification_analysis |-> has_analysis,
     diversification_analysis |-> analysis]

\* No plan: the call raised, or was not a call of generate_investment_plan.
NoPlan == Plan("none", "", TRUE, <<>>, FALSE, NoAnalysis)

\* Mutant: the emptiness of the returned frame is not checked.
IsEmptyNeverChecked(recommendations) == FALSE

\* recommendations.empty
IsEmpty(recommendations) == recommendations = <<>>

\* Lines 457-502: the plan built from a non-empty frame.
SuccessPlan(recommendations, message, horizon) ==
    Plan("success", message, FALSE,
         [k \in 1..Len(recommendations) |->
             FundInfo(k, recommendations[k], horizon)],
         Len(recommendations) >= 2,
         IF Len(recommendations) >= 2
         THEN DiversificationAnalysis(recommendations[1], recommendations[2])
         ELSE NoAnalysis)

\* Lines 450-502 of generate_investment_plan: what it makes of the outcome r
\* of its call of get_diversified_recommendations.  Reading
\* fund['suggested_allocation'] of a row without that column raises KeyError.
PlanFrom(r, horizon) ==
    IF r.raised # "none"
    THEN [call |-> r, raised |-> r.raised, plan |-> NoPlan]
    ELSE IF IsEmpty(r.picks)
    THEN [call |-> r, raised |-> "none",
          plan |-> Plan("error", r.message, TRUE, <<>>, FALSE, NoAnalysis)]
    ELSE IF \E k \in 1..Len(r.picks) : ~r.picks[k].allocated
    THEN [call |-> r, raised |-> "KeyError", plan |-> NoPlan]
    ELSE [call |-> r, raised |-> "none",
          plan |-> SuccessPlan(r.picks, r.message, horizon)]

\* generate_investment_plan: the exception that escapes it ("none" when it
\* returns) and the plan it returns.
GenerateInvestmentPlan(investment_amount, horizon, risk_tolerance, category_preference) ==
    PlanFrom(GetDiversifiedRecommendations(investment_amount, horizon,
                 risk_tolerance, category_preference, DefaultTopN),
             horizon)

\* ------------------------------------------------------------- the requests

Amounts == {1001, 5000}
Horizons == {1, 3, 5}
RiskLabels == {"conservative", "moderate", "aggressive", "extreme"}
CategoryPreferences == {"", "Equity", "Gold"}

Request(api, amount, horizon, risk, category, top_n) ==
    [api |-> api, investment_amount |-> amount, horizon |-> horizon,
     risk_tolerance |-> risk, category_preference |-> category,
     top_n |-> top_n]

NoRequest == Request("none", 0, 0, "", "", 0)

NoOutcome ==
    [call |-> Ended("none", "", <<>>, <<>>, <<>>, FALSE, <<>>),
     raised |-> "none", plan |-> NoPlan]

\* ------------------------------------------------------------ the universes

RECURSIVE Ascending(_)
Ascending(S) ==
    IF S = {} THEN <<>>
    ELSE LET m == CHOOSE x \in S : \A y \in S : x <= y
         IN  <<m>> \o Ascending(S \ {m})

Reverse(s) == [k \in 1..Len(s) |-> s[Len(s) + 1 - k]]

\* The datasets of the model: the rows of Pool at one to MaxFunds positions,
\* in Pool order or in the reverse order.  scheme_name is unique within each.
PoolOrdered ==
    { [k \in 1..Cardinality(S) |-> Pool[Ascending(S)[k]]] :
        S \in { T \in SUBSET (1..Len(Pool)) :
                    Cardinality(T) >= 1 /\ Cardinality(T) <= MaxFunds } }

Universes == PoolOrdered \cup { Reverse(u) : u \in PoolOrdered }

\* ------------------------------------------------------------ state machine

\* The feature-column lists after loading: both artifacts trained on the
\* dataset in use, or the 3-year artifact trained on an older dataset.
LoadedFeatureColumns ==
    { ("return_1yr" :> TrainedFeatureCols) @@ ("return_3yr" :> cols) :
        cols \in {TrainedFeatureCols, StaleFeatureCols} }

\* After __init__: the dataset is read and the models of the 1- and 3-year
\* horizons are loaded with their feature-column lists.
Init ==
    /\ df \in Universes
    /\ models = {"return_1yr", "return_3yr"}
    /\ feature_columns \in LoadedFeatureColumns
    /\ pc = "idle"
    /\ req = NoRequest
    /\ out = NoOutcome

\* A caller runs generate_investment_plan to its end.
GenerateInvestmentPlanCall ==
    /\ pc = "idle"
    /\ \E a \in Amounts, h \in Horizons, r \in RiskLabels,
          c \in CategoryPreferences :
          /\ req' = Request("plan", a, h, r, c, DefaultTopN)
          /\ out' = GenerateInvestmentPlan(a, h, r, c)
    /\ pc' = "returned"
    /\ UNCHANGED <<df, models, feature_columns>>

\* A caller runs get_diversified_recommendations with an explicit top_n.
GetDiversifiedRecommendationsCall ==
    /\ pc = "idle"
    /\ \E a \in Amounts, h \in Horizons, r \in RiskLabels,
          c \in CategoryPreferences, n \in 1..MaxTopN :
          LET res == GetDiversifiedRecommendations(a, h, r, c, n)
          IN  /\ req' = Request("recommendations", a, h, r, c, n)
              /\ out' = [call |-> res, raised |-> res.raised, plan |-> NoPlan]
    /\ pc' = "returned"
    /\ UNCHANGED <<df, models, feature_columns>>

\* The caller has consumed the result; the request's working data is gone.
Return ==
    /\ pc = "returned"
    /\ pc' = "idle"
    /\ req' = NoRequest
    /\ out' = NoOutcome
    /\ UNCHANGED <<df, models, feature_columns>>

\* The three funds of the tie scenario: alike but for name, AMC and risk
\* level, so that their composite scores are identical.
ScenarioFund(name, amc, risk) ==
    Fund(name, amc, {"Equity"}, {"Large"}, 500, 500, risk, {}, 2, 4,
         <<4, 4, 4>>, <<10, 10>>, FALSE)

ScenarioFunds ==
    <<ScenarioFund("S3", "X", 3), ScenarioFund("S4", "X", 4),
      ScenarioFund("S5", "Y", 5)>>

\* The scenario's universe in each of its six orders.
ScenarioUniverses ==
    { [k \in 1..3 |-> ScenarioFunds[p[k]]] :
        p \in { q \in [1..3 -> 1..3] : \A i, j \in 1..3 : i # j => q[i] # q[j] } }

InitScenario ==
    /\ df \in ScenarioUniverses
    /\ models = {"return_1yr", "return_3yr"}
    /\ feature_columns = [t \in models |-> TrainedFeatureCols]
    /\ pc = "idle"
    /\ req = NoRequest
    /\ out = NoOutcome

Next ==
    \/ GenerateInvestmentPlanCall
    \/ GetDiversifiedRecommendationsCall
    \/ Return

Spec == Init /\ [][Next]_vars

SpecScenario == InitScenario /\ [][Next]_vars

\* ------------------------------------------------- category difference alone
\* calculate_category_difference applied to two rows drawn from every
\* combination of at most one main-category flag and any sub-category flags.

SubCategories == {"Large", "Mid"}

\* A row with the given flags; its other columns play no part.
CategoryFund(name, cats, subs) ==
    Fund(name, "X", cats, subs, 500, 500, 3, {}, 1, 3, <<3, 3, 3>>, <<3, 3>>,
         FALSE)

MainFlagChoices == {{}} \cup {{c} : c \in CategoryColumns}

InitCategory ==
    /\ df \in { <<CategoryFund("A", c1, s1), CategoryFund("B", c2, s2)>> :
                  c1 \in MainFlagChoices, c2 \in MainFlagChoices,
                  s1 \in SUBSET SubCategories, s2 \in SUBSET SubCategories }
    /\ models = {"return_1yr", "return_3yr"}
    /\ feature_columns = [t \in models |-> TrainedFeatureCols]
    /\ pc = "idle"
    /\ req = NoRequest
    /\ out = [raised |-> "none", category_diff |-> 0]

\* self.calculate_category_difference(fund, best_fund) on the two rows.
CalculateCategoryDifferenceCall ==
    /\ pc = "idle"
    /\ out' = [raised |-> "none",
               category_diff |-> CalculateCategoryDifference(df[1], df[2])]
    /\ pc' = "returned"
    /\ UNCHANGED <<df, models, feature_columns, req>>

\* The caller has used the value.
CategoryDifferenceUsed ==
    /\ pc = "returned"
    /\ out' = [raised |-> "none", category_diff |-> 0]
    /\ pc' = "idle"
    /\ UNCHANGED <<df, models, feature_columns, req>>

NextCategory == CalculateCategoryDifferenceCall \/ CategoryDifferenceUsed

SpecCategory == InitCategory /\ [][NextCategory]_vars

\* --------------------------------------------------- feature assembly alone
\* The loop of predict_fund_returns (and of predict_fund_return of
\* MutualFundModelLoader, which is the same code) over a dataset of two
\* numeric columns.  A cell is <<>> for NaN and <<v>> for the number v; the
\* entries of the assembled vector are kept in halves (<<2v>> for v), so
\* that the median of an even number of values is exact.

\* The smallest element of a non-empty sequence of numbers.
RECURSIVE MinOf(_)
MinOf(s) ==
    IF Len(s) = 1 THEN s[1]
    ELSE LET m == MinOf(Tail(s)) IN IF s[1] <= m THEN s[1] ELSE m

\* s without the first occurrence of v.
RECURSIVE Without(_, _)
Without(s, v) ==
    IF s = <<>> THEN <<>>
    ELSE IF Head(s) = v THEN Tail(s)
    ELSE <<Head(s)>> \o Without(Tail(s), v)

\* s in ascending order.
RECURSIVE Sorted(_)
Sorted(s) ==
    IF s = <<>> THEN <<>>
    ELSE LET m == MinOf(s) IN <<m>> \o Sorted(Without(s, m))

\* The numbers of a column, NaN cells skipped (skipna=True).
RECURSIVE Numbers(_)
Numbers(cells) ==
    IF cells = <<>> THEN <<>>
    ELSE Head(cells) \o Numbers(Tail(cells))

\* Series.median(), in halves: NaN for a column without numbers, the middle
\* value, or the mean of the two middle values.
MedianHalves(cells) ==
    LET sorted == Sorted(Numbers(cells))
        n == Len(sorted)
    IN  IF n = 0 THEN <<>>
        ELSE IF n % 2 = 1 THEN <<2 * sorted[(n + 1) \div 2]>>
        ELSE <<sorted[n \div 2] + sorted[n \div 2 + 1]>>

\* A cell of fund_data as an entry of the vector, in halves.
OwnValue(cell) == IF cell = <<>> THEN <<>> ELSE <<2 * cell[1]>>

\* self.df[col] of a frame that has the column.
Column(frame, col) == [i \in 1..Len(frame) |-> frame[i][col]]

\* Mutant: a NaN value of the fund is replaced by the median too.
FeatureEntryImputesNaN(fund_data, col, frame) ==
    IF col \in DOMAIN fund_data /\ fund_data[col] # <<>>
    THEN OwnValue(fund_data[col])
    ELSE MedianHalves(Column(frame, col))

\* fund_data[col] if col in fund_data else self.df[col].median()
FeatureEntry(fund_data, col, frame) ==
    IF col \in DOMAIN fund_data THEN OwnValue(fund_data[col])
    ELSE MedianHalves(Column(frame, col))

\* The loop over feature_cols: KeyError when a column is in neither the
\* fund nor the dataset, otherwise the vector in the order of feature_cols.
FundFeatures(fund_data, feature_cols, frame) ==
    IF \E k \in 1..Len(feature_cols) :
           /\ feature_cols[k] \notin DOMAIN fund_data
           /\ feature_cols[k] \notin DOMAIN frame[1]
    THEN [raised |-> "KeyError", fund_features |-> <<>>]
    ELSE [raised |-> "none",
          fund_features |->
              [k \in 1..Len(feature_cols) |->
                  FeatureEntry(fund_data, feature_cols[k], frame)]]

\* predict_fund_returns up to the call of model.predict.
AssembleFeatures(fund_data, horizon) ==
    IF TargetCol(horizon) \notin models
    THEN [raised |-> "ValueError", fund_features |-> <<>>]
    ELSE IF TargetCol(horizon) \notin DOMAIN feature_columns
    THEN [raised |-> "KeyError", fund_features |-> <<>>]
    ELSE FundFeatures(fund_data, feature_columns[TargetCol(horizon)], df)

\* The rows of the two-column dataset.
FeatureRows ==
    { [risk_level |-> r, fund_size |-> z] :
        r \in {<<1>>, <<4>>}, z \in {<<>>, <<2>>, <<5>>} }

\* Datasets of 1 to MaxFunds rows.
FeatureDatasets ==
    UNION { [1..n -> FeatureRows] : n \in 1..MaxFunds }

\* fund_data: any of the two fields may be absent, or present with any
\* cell.
FundDataChoices ==
    UNION { [keys -> {<<>>, <<3>>, <<6>>}] :
              keys \in SUBSET {"risk_level", "fund_size"} }

\* The column lists of the loaded 1-year predictor.
FeatureColumnLists ==
    { <<"risk_level", "fund_size">>, <<"fund_size", "risk_level">>,
      <<"risk_level", "fund_size", "sortino">> }

InitFeatures ==
    /\ df \in FeatureDatasets
    /\ models = {"return_1yr"}
    /\ feature_columns \in
           { ("return_1yr" :> cols) : cols \in FeatureColumnLists }
    /\ pc = "idle"
    /\ req = [fund_data |-> <<>>, horizon |-> 0]
    /\ out = [raised |-> "none", fund_features |-> <<>>]

\* A caller asks for the prediction of one fund.
PredictFundReturnsCall ==
    /\ pc = "idle"
    /\ \E fund_data \in FundDataChoices, horizon \in {1, 3} :
          /\ req' = [fund_data |-> fund_data, horizon |-> horizon]
          /\ out' = AssembleFeatures(fund_data, horizon)
    /\ pc' = "returned"
    /\ UNCHANGED <<df, models, feature_columns>>

\* The prediction has been used.
PredictionUsed ==
    /\ pc = "returned"
    /\ req' = [fund_data |-> <<>>, horizon |-> 0]
    /\ out' = [raised |-> "none", fund_features |-> <<>>]
    /\ pc' = "idle"
    /\ UNCHANGED <<df, models, feature_columns>>

NextFeatures == PredictFundReturnsCall \/ PredictionUsed

SpecFeatures == InitFeatures /\ [][NextFeatures]_vars

\* ------------------------------------------------------ concurrent requests
\* Several requests in flight over one system object.  pc, req and out hold
\* one entry per thread; a request advances in three steps (narrowing,
\* scoring and selection, plan), and other threads may run between them.

MaxThreads == 2

Threads == 1..MaxThreads

\* Lines 272-311 of get_diversified_recommendations: the outcome when the
\* call ends there, and otherwise df_filtered with an empty message.
NarrowingPhase(investment_amount, horizon, risk_tolerance, category_preference) ==
    IF TargetCol(horizon) \notin models
    THEN Ended("ValueError", "", <<>>, <<>>, AllRows, FALSE, <<>>)
    ELSE IF risk_tolerance \notin DOMAIN risk_mapping
    THEN Ended("KeyError", "", <<>>, <<"affordability">>,
               AffordabilityStep(AllRows, investment_amount), FALSE, <<>>)
    ELSE
    LET df_filtered ==
            CandidateFilter(investment_amount, horizon,
                            risk_mapping[risk_tolerance][1],
                            risk_mapping[risk_tolerance][2],
                            category_preference)
    IN  Ended("none",
              IF InsufficientCandidates(df_filtered)
              THEN "Insufficient funds match your criteria" ELSE "",
              <<>>, FilterSteps, df_filtered, FALSE, <<>>)

\* The call has not ended in its narrowing phase.
Pending(call) == call.raised = "none" /\ call.message = ""

\* Mutant: the narrowing steps are applied to self.df itself.
SelfDfNarrowedInPlace(df_filtered) ==
    [k \in 1..Len(df_filtered) |-> df[df_filtered[k]]]

\* df_filtered = self.df.copy(): the narrowing steps rebind the local name
\* and leave self.df as it was.
SelfDfAfterNarrowing(df_filtered) == df

\* The requests served concurrently.
ConcurrentRequests ==
    { Request("plan", 5000, 1, r, "", DefaultTopN) :
          r \in {"conservative", "moderate", "extreme"} }
    \cup { Request("plan", 5000, 5, "moderate", "", DefaultTopN),
           Request("recommendations", 1001, 1, "moderate", "Equity",
                   MaxTopN) }

\* Universes whose requests end in every way: success, too few candidates,
\* too few predictions, and the two exceptions.
ConcurrentUniverses ==
    { <<Pool[1], Pool[3], Pool[4]>>, <<Pool[7], Pool[1], Pool[8]>>,
      <<Pool[6], Pool[4], Pool[3]>> }

InitConcurrent ==
    /\ df \in ConcurrentUniverses
    /\ models = {"return_1yr", "return_3yr"}
    /\ feature_columns = [t \in models |-> TrainedFeatureCols]
    /\ pc = [t \in Threads |-> "idle"]
    /\ req = [t \in Threads |-> NoRequest]
    /\ out = [t \in Threads |-> NoOutcome]

\* Thread t takes a request and runs it through the narrowing steps.
Narrow(t) ==
    /\ pc[t] = "idle"
    /\ \E q \in ConcurrentRequests :
          LET call == NarrowingPhase(q.investment_amount, q.horizon,
                          q.risk_tolerance, q.category_preference)
          IN  /\ req' = [req EXCEPT ![t] = q]
              /\ out' = [out EXCEPT ![t] =
                            [call |-> call, raised |-> call.raised,
                             plan |-> NoPlan]]
              /\ df' = SelfDfAfterNarrowing(call.df_filtered)
    /\ pc' = [pc EXCEPT ![t] = "narrowed"]
    /\ UNCHANGED <<models, feature_columns>>

\* Thread t predicts, scores and selects over its df_filtered, unless its
\* call ended in the narrowing phase.
Score(t) ==
    /\ pc[t] = "narrowed"
    /\ LET call == IF Pending(out[t].call)
                   THEN ScoreAndSelect(out[t].call.df_filtered,
                                       req[t].investment_amount,
                                       req[t].horizon, req[t].top_n)
                   ELSE out[t].call
       IN  out' = [out EXCEPT ![t] =
                      [call |-> call, raised |-> call.raised,
                       plan |-> NoPlan]]
    /\ pc' = [pc EXCEPT ![t] = "scored"]
    /\ UNCHANGED <<df, models, feature_columns, req>>

\* Thread t builds the plan (generate_investment_plan) or hands the frame
\* back (get_diversified_recommendations), and returns.
Finish(t) ==
    /\ pc[t] = "scored"
    /\ out' = [out EXCEPT ![t] =
                  IF req[t].api = "plan"
                  THEN PlanFrom(out[t].call, req[t].horizon)
                  ELSE out[t]]
    /\ pc' = [pc EXCEPT ![t] = "returned"]
    /\ UNCHANGED <<df, models, feature_columns, req>>

\* The caller of thread t has consumed the result.
Forget(t) ==
    /\ pc[t] = "returned"
    /\ pc' = [pc EXCEPT ![t] = "idle"]
    /\ req' = [req EXCEPT ![t] = NoRequest]
    /\ out' = [out EXCEPT ![t] = NoOutcome]
    /\ UNCHANGED <<df, models, feature_columns>>

NextConcurrent ==
    \E t \in Threads : Narrow(t) \/ Score(t) \/ Finish(t) \/ Forget(t)

SpecConcurrent == InitConcurrent /\ [][NextConcurrent]_vars

\* ------------------------------------------------------- repeated requests
\* One caller after another: every request runs generate_investment_plan
\* (or get_diversified_recommendations) to its end before the next starts.
\* out keeps the answer of the last request, the answer each request got
\* the first time it was served, and the order of those first services.

RepeatRequests ==
    { Request("plan", 5000, h, "moderate", "", DefaultTopN) : h \in {1, 3} }
    \cup { Request("plan", 5000, 1, "conservative", "", DefaultTopN),
           Request("plan", 5000, 1, "extreme", "", DefaultTopN),
           Request("recommendations", 1001, 1, "moderate", "Equity",
                   MaxTopN) }

\* What the caller of a request sees: the returned value (a plan, or the
\* rows of the returned frame) or the exception.
Answer(result, raised) == [result |-> result, raised |-> raised]

\* The log after request q got the answer a.
Logged(q, a) ==
    [result |-> a.result, raised |-> a.raised,
     first |-> IF q \in DOMAIN out.first THEN out.first
               ELSE out.first @@ (q :> a),
     order |-> IF q \in DOMAIN out.first THEN out.order
               ELSE Append(out.order, q),
     repeat |-> q \in DOMAIN out.first]

InitRepeat ==
    /\ df \in ConcurrentUniverses
    /\ models = {"return_1yr", "return_3yr"}
    /\ feature_columns \in LoadedFeatureColumns
    /\ pc = "idle"
    /\ req = NoRequest
    /\ out = [result |-> NoPlan, raised |-> "none", first |-> <<>>,
              order |-> <<>>, repeat |-> FALSE]

\* A request for a plan is served from start to end.
ServePlan ==
    /\ \E q \in {r \in RepeatRequests : r.api = "plan"} :
          LET res == GenerateInvestmentPlan(q.investment_amount, q.horizon,
                         q.risk_tolerance, q.category_preference)
          IN  /\ req' = q
              /\ out' = Logged(q, Answer(res.plan, res.raised))
              /\ df' = SelfDfAfterNarrowing(res.call.df_filtered)
    /\ pc' = "returned"
    /\ UNCHANGED <<models, feature_columns>>

\* A request for recommendations is served from start to end.
ServeRecommendations ==
    /\ \E q \in {r \in RepeatRequests : r.api = "recommendations"} :
          LET res == GetDiversifiedRecommendations(q.investment_amount,
                         q.horizon, q.risk_tolerance, q.category_preference,
                         q.top_n)
          IN  /\ req' = q
              /\ out' = Logged(q, Answer(res.picks, res.raised))
              /\ df' = SelfDfAfterNarrowing(res.df_filtered)
    /\ pc' = "returned"
    /\ UNCHANGED <<models, feature_columns>>

NextRepeat == ServePlan \/ ServeRecommendations

SpecRepeat == InitRepeat /\ [][NextRepeat]_vars

\* ------------------------------------------------- the /api/recommend route
\* get_recommendations of main.py over the global ml_system.  pc says where
\* the handler is and whether the global ml_system was set at startup; out
\* is the HTTP response together with what generate_investment_plan gave
\* the handler.

\* category_mapping.get(request.category) if request.category else None;
\* "" stands for None.
category_mapping(category) ==
    IF category \in {"Equity", "Hybrid", "Debt", "Other"} THEN category
    ELSE ""

\* An HTTP response: the status code, the detail of an error, the body of a
\* 200 response.
Response(status_code, detail, body) ==
    [status_code |-> status_code, detail |-> detail, body |-> body]

NoBody == [status |-> "none", message |-> "", recommendations |-> <<>>]

\* str(e) of an exception raised inside the try block, after the prefix of
\* line 347.
ErrorDetail(exception, text) ==
    [prefix |-> "Error generating recommendations: ",
     exception |-> exception, text |-> text]

\* except Exception as e: raise HTTPException(status_code=500, ...).  It
\* catches every exception of the try block, the HTTPException of line 315
\* included.
ExceptException(exception, text) ==
    Response(500, ErrorDetail(exception, text), NoBody)

\* recommendations of the given AMC, all of them when none is asked for.
FilterByAmc(recommendations, amc_name) ==
    IF amc_name = "" THEN recommendations
    ELSE SelectSeq(recommendations, LAMBDA rec : rec.amc_name = amc_name)

\* The try block of get_recommendations, lines 295-344, with its handler.
TryRecommend(request) ==
    LET res == GenerateInvestmentPlan(request.amount, request.tenure,
                   request.risk_tolerance,
                   category_mapping(request.category))
    IN  IF res.raised # "none"
        THEN ExceptException(res.raised, "")
        ELSE IF res.plan.status # "success"
        THEN ExceptException("HTTPException", res.plan.message)
        ELSE IF FilterByAmc(res.plan.recommendations, request.amc_name) = <<>>
        THEN Response(200, "",
                 [status |-> "partial_match",
                  message |-> "No suitable funds found",
                  recommendations |-> res.plan.recommendations])
        ELSE Response(200, "",
                 [status |-> "success", message |-> res.plan.message,
                  recommendations |->
                      FilterByAmc(res.plan.recommendations,
                                  request.amc_name)])

\* get_recommendations
GetRecommendations(request) ==
    IF ~pc.ml_system_set
    THEN Response(500, "ML system not loaded", NoBody)
    ELSE TryRecommend(request)

\* The bodies of RecommendationRequest.
ApiRequests ==
    [amc_name : {"", "X", "W"}, category : CategoryPreferences,
     amount : Amounts, tenure : Horizons, risk_tolerance : RiskLabels]

NoApiRequest ==
    [amc_name |-> "", category |-> "", amount |-> 0, tenure |-> 0,
     risk_tolerance |-> ""]

NoResponse == [response |-> Response(0, "", NoBody), plan |-> NoPlan,
               raised |-> "none"]

InitApi ==
    /\ df \in ConcurrentUniverses
    /\ models = {"return_1yr", "return_3yr"}
    /\ feature_columns \in LoadedFeatureColumns
    /\ pc \in [at : {"idle"}, ml_system_set : BOOLEAN]
    /\ req = NoApiRequest
    /\ out = NoResponse

\* A client posts to /api/recommend and the handler runs to its end.
GetRecommendationsCall ==
    /\ pc.at = "idle"
    /\ \E request \in ApiRequests :
          LET res == GenerateInvestmentPlan(request.amount, request.tenure,
                         request.risk_tolerance,
                         category_mapping(request.category))
          IN  /\ req' = request
              /\ out' = [response |-> GetRecommendations(request),
                         plan |-> IF pc.ml_system_set THEN res.plan
                                  ELSE NoPlan,
                         raised |-> IF pc.ml_system_set THEN res.raised
                                    ELSE "none"]
    /\ pc' = [pc EXCEPT !.at = "returned"]
    /\ UNCHANGED <<df, models, feature_columns>>

\* The response has been sent.
ResponseSent ==
    /\ pc.at = "returned"
    /\ req' = NoApiRequest
    /\ out' = NoResponse
    /\ pc' = [pc EXCEPT !.at = "idle"]
    /\ UNCHANGED <<df, models, feature_columns>>

NextApi == GetRecommendationsCall \/ ResponseSent

SpecApi == InitApi /\ [][NextApi]_vars

\* ------------------------------------------------------------ model loading
\* The loops of load_models_from_pickle (DiversifiedMutualFundSystem) and
\* of load_all_models (MutualFundModelLoader) over the three targets, one
\* iteration per step, and one prediction afterwards.  df is a one-row
\* dataset with the two feature columns and any of the return columns; req
\* holds what is found in the models directory for each target; pc names
\* the class of the object and the next target of the loop.

targets == <<"return_1yr", "return_3yr", "return_5yr">>

\* What the pickle file of a target can be: a complete artifact, no file,
\* a file that cannot be unpickled or has no 'model' key, a dictionary
\* with 'model' but without 'feature_columns', and a dictionary with both
\* but without 'model_type'.
Artifacts ==
    {"complete", "missing_file", "unreadable", "no_feature_columns",
     "no_model_type"}

\* The columns of the dataset, in file order.
LoadingColumns ==
    <<"risk_level", "fund_size", "return_1yr", "return_3yr", "return_5yr">>

\* The one-row dataset with the given return columns.
LoadingDataset(return_cols) ==
    << [col \in {"risk_level", "fund_size"} \cup return_cols |->
           IF col = "risk_level" THEN <<4>>
           ELSE IF col = "fund_size" THEN <<2>> ELSE <<10>>] >>

\* prepare_features: the columns of the dataset other than the return
\* columns (scheme_name, fund_manager and amc_name are not in this
\* dataset).
PrepareFeatureCols(target_column) ==
    SelectSeq(LoadingColumns,
              LAMBDA col : /\ col \in DOMAIN df[1]
                           /\ col # target_column
                           /\ col \notin {targets[k] : k \in 1..3})

\* d[key] = value
SetItem(d, key, value) ==
    [k \in DOMAIN d \cup {key} |-> IF k = key THEN value ELSE d[k]]

\* The two registries and the exception of a loading step.
Registries(models_, feature_columns_, raised) ==
    [models |-> models_, feature_columns |-> feature_columns_,
     raised |-> raised]

\* The try block of a loading step: open, pickle.load, then
\* self.models[target] = model_data['model'], then
\* self.feature_columns[target] = model_data['feature_columns'], then the
\* reads of model_type, performance and training_date.
ReadArtifact(target, artifact) ==
    IF artifact = "missing_file"
    THEN Registries(models, feature_columns, "FileNotFoundError")
    ELSE IF artifact = "unreadable"
    THEN Registries(models, feature_columns, "Exception")
    ELSE IF artifact = "no_feature_columns"
    THEN Registries(models \cup {target}, feature_columns, "KeyError")
    ELSE Registries(models \cup {target},
                    SetItem(feature_columns, target,
                            <<"risk_level", "fund_size">>),
                    IF artifact = "no_model_type" THEN "KeyError"
                    ELSE "none")

\* train_single_model: trains and registers when the target is one of the
\* three configured ones and a column of the dataset, does nothing
\* otherwise.
TrainSingleModel(r, target) ==
    IF target \in {targets[k] : k \in 1..3} /\ target \in DOMAIN df[1]
    THEN Registries(r.models \cup {target},
                    SetItem(r.feature_columns, target,
                            PrepareFeatureCols(target)), "none")
    ELSE Registries(r.models, r.feature_columns, "none")

\* One iteration of the loop of load_models_from_pickle: both except
\* clauses call train_single_model.
LoadModelsFromPickleIteration(target, artifact) ==
    LET r == ReadArtifact(target, artifact)
    IN  IF r.raised = "none" THEN r ELSE TrainSingleModel(r, target)

\* load_individual_model: both except clauses return False.
LoadIndividualModel(target, artifact) ==
    LET r == ReadArtifact(target, artifact)
    IN  Registries(r.models, r.feature_columns, "none")

NoPrediction == [raised |-> "none", fund_features |-> <<>>]

InitLoading ==
    /\ df \in {LoadingDataset(cols) : cols \in SUBSET {targets[k] : k \in 1..3}}
    /\ models = {}
    /\ feature_columns = <<>>
    /\ pc \in [class : {"DiversifiedMutualFundSystem",
                        "MutualFundModelLoader"},
               next : {1}, predicted : {FALSE}]
    /\ req \in [{targets[k] : k \in 1..3} -> Artifacts]
    /\ out = NoPrediction

\* The constructor of DiversifiedMutualFundSystem handles the next target.
LoadModelsFromPickleStep ==
    /\ pc.class = "DiversifiedMutualFundSystem"
    /\ pc.next <= Len(targets)
    /\ \A r \in {LoadModelsFromPickleIteration(targets[pc.next],
                     req[targets[pc.next]])} :
          /\ models' = r.models
          /\ feature_columns' = r.feature_columns
    /\ pc' = [pc EXCEPT !.next = @ + 1]
    /\ UNCHANGED <<df, req, out>>

\* load_all_models of MutualFundModelLoader handles the next target.
LoadAllModelsStep ==
    /\ pc.class = "MutualFundModelLoader"
    /\ pc.next <= Len(targets)
    /\ \A r \in {LoadIndividualModel(targets[pc.next],
                     req[targets[pc.next]])} :
          /\ models' = r.models
          /\ feature_columns' = r.feature_columns
    /\ pc' = [pc EXCEPT !.next = @ + 1]
    /\ UNCHANGED <<df, req, out>>

\* After loading, a prediction is asked for the row of the dataset.
PredictAfterLoading ==
    /\ pc.next > Len(targets) /\ ~pc.predicted
    /\ \E horizon \in Horizons :
          out' = AssembleFeatures(df[1], horizon)
    /\ pc' = [pc EXCEPT !.predicted = TRUE]
    /\ UNCHANGED <<df, models, feature_columns, req>>

NextLoading ==
    LoadModelsFromPickleStep \/ LoadAllModelsStep \/ PredictAfterLoading

SpecLoading == InitLoading /\ [][NextLoading]_vars

\* =================================================================== claims

\* risk_tolerance: 'conservative', 'moderate', 'aggressive' (the docstring).
ValidRiskLabels == {"conservative", "moderate", "aggressive"}

\* The request in hand names a horizon with a loaded model and a documented
\* risk tolerance.
ValidRequest ==
    /\ TargetCol(req.horizon) \in {"return_1yr", "return_3yr"}
    /\ req.risk_tolerance \in ValidRiskLabels

PlanReturned == pc = "returned" /\ req.api = "plan"

\* The inclusive risk range of the request's tolerance, as documented.
ReqMinRisk ==
    CASE req.risk_tolerance = "conservative" -> 1
      [] req.risk_tolerance = "moderate" -> 3
      [] OTHER -> 5

ReqMaxRisk ==
    CASE req.risk_tolerance = "conservative" -> 3
      [] req.risk_tolerance = "moderate" -> 5
      [] OTHER -> 6

\* The rows of the universe that pass the four filter conditions of the
\* request in hand, stated on the rows and not through the filter steps.
PassingRows ==
    { i \in 1..Len(df) :
        /\ 2 * df[i].min_sip <= req.investment_amount
           \/ 2 * df[i].min_lumpsum <= req.investment_amount
        /\ df[i].risk_level \in ReqMinRisk..ReqMaxRisk
        /\ req.category_preference \in {"Equity", "Hybrid", "Debt", "Other"}
              => req.category_preference \in df[i].category
        /\ req.horizon \notin df[i].missing }

\* C1: whenever fewer than 2 funds pass the candidate filter of a request to
\* generate_investment_plan (loaded horizon, valid risk tolerance), the
\* result has status 'error' and carries no recommendations.
C1_InsufficientIsError ==
    (PlanReturned /\ ValidRequest /\ Cardinality(PassingRows) < 2)
        => /\ out.raised = "none"
           /\ out.plan.status = "error"
           /\ out.plan.recommendations = <<>>

\* A request that exactly one fund of a larger universe passes has returned.
C1_Witness ==
    /\ PlanReturned /\ ValidRequest
    /\ Cardinality(PassingRows) = 1
    /\ Len(df) >= 2
    /\ out.plan.status = "error"

\* C2: in every 'success' result of generate_investment_plan the two
\* returned funds have distinct scheme identifiers and their allocation
\* percentages sum to 100.
C2_DistinctPairSumsTo100 ==
    (PlanReturned /\ out.plan.status = "success")
        => /\ Len(out.plan.recommendations) = 2
           /\ out.plan.recommendations[1].scheme_name
                  # out.plan.recommendations[2].scheme_name
           /\ out.plan.recommendations[1].allocation_percentage
                  + out.plan.recommendations[2].allocation_percentage = 100

\* A successful plan over a shortlist in which every remaining fund has a
\* diversification score of 0 against the best fund.
C2_Witness ==
    /\ PlanReturned /\ out.plan.status = "success"
    /\ Len(out.call.top_funds) >= 2
    /\ \A k \in 2..Len(out.call.top_funds) :
           DivScore(df[out.call.top_funds[k].idx],
                    df[out.call.top_funds[1].idx], out.call.top_funds) = 0

\* C3 as stated: every call of generate_investment_plan, whatever the
\* horizon and the risk-tolerance label, returns a result with a status and
\* no exception escapes.
C3_NothingEscapes ==
    PlanReturned
        => out.raised = "none" /\ out.plan.status \in {"success", "error"}

\* C3 amended: a call with a loaded horizon and a documented risk tolerance
\* returns a result with status 'success' or 'error', an error carrying its
\* message; a horizon without a model makes ValueError escape, and an
\* undocumented risk tolerance (loaded horizon) makes KeyError escape.
C3_StatusOrRaise ==
    PlanReturned =>
        IF TargetCol(req.horizon) \notin {"return_1yr", "return_3yr"}
        THEN out.raised = "ValueError" /\ out.plan = NoPlan
        ELSE IF req.risk_tolerance \notin ValidRiskLabels
        THEN out.raised = "KeyError" /\ out.plan = NoPlan
        ELSE /\ out.raised = "none"
             /\ out.plan.status \in {"success", "error"}
             /\ out.plan.status = "error" => out.plan.message # ""

\* A prediction failure (two candidates, fewer than two predictions) has
\* been turned into an error result.
C3_Witness ==
    /\ PlanReturned /\ ValidRequest
    /\ Cardinality(PassingRows) >= 2
    /\ out.raised = "none"
    /\ out.plan.status = "error"
    /\ out.plan.message = "Unable to generate predictions"

\* C4 as stated: a request with an unknown risk tolerance fails before any
\* filtering step has been applied.
C4_FailsBeforeFiltering ==
    (pc = "returned" /\ req.risk_tolerance \notin ValidRiskLabels)
        => out.raised # "none" /\ out.call.steps = <<>>

\* C4 amended: a request with an unknown risk tolerance and a loaded horizon
\* fails with the KeyError of the risk_mapping lookup, after the
\* affordability step has narrowed the working copy and before the risk,
\* category and completeness steps; without a model for the horizon it fails
\* with ValueError before any step.
C4_FailsAfterAffordability ==
    (pc = "returned" /\ req.risk_tolerance \notin ValidRiskLabels) =>
        IF TargetCol(req.horizon) \in {"return_1yr", "return_3yr"}
        THEN /\ out.raised = "KeyError"
             /\ out.call.steps = <<"affordability">>
             /\ out.call.df_filtered
                    = SelectSeq(AllRows,
                          LAMBDA i : \/ 2 * df[i].min_sip
                                          <= req.investment_amount
                                     \/ 2 * df[i].min_lumpsum
                                          <= req.investment_amount)
             /\ ~out.call.selector_called
        ELSE out.raised = "ValueError" /\ out.call.steps = <<>>

\* An unknown label has failed after the affordability step dropped a row.
C4_Witness ==
    /\ pc = "returned"
    /\ req.risk_tolerance = "extreme"
    /\ out.raised = "KeyError"
    /\ Len(out.call.df_filtered) < Len(df)

\* C5: every result of generate_investment_plan is 'success' with exactly
\* two recommendations and a diversification_analysis, or 'error' with a
\* message.
C5_TwoShapes ==
    (PlanReturned /\ out.raised = "none") =>
        \/ /\ out.plan.status = "success"
           /\ ~out.plan.recommendations_is_none
           /\ Len(out.plan.recommendations) = 2
           /\ out.plan.has_diversification_analysis
           /\ out.plan.diversification_analysis # NoAnalysis
        \/ /\ out.plan.status = "error"
           /\ out.plan.message # ""
           /\ out.plan.recommendations = <<>>
           /\ ~out.plan.has_diversification_analysis

\* A successful plan picked from more than two scored candidates.
C5_Witness ==
    /\ PlanReturned
    /\ out.plan.status = "success"
    /\ Len(out.call.top_funds) >= 3

\* C6: select_diversified_pair is only ever reached with at least 2 funds,
\* whatever the top_n; with fewer than 2 candidates the call ends with the
\* insufficient-candidates result.
C6_SelectorGetsTwo ==
    pc = "returned" =>
        /\ out.call.selector_called => Len(out.call.top_funds) >= 2
        /\ (ValidRequest /\ Cardinality(PassingRows) < 2)
               => /\ ~out.call.selector_called
                  /\ out.call.message = "Insufficient funds match your criteria"

\* C7: filtering is monotonic: a narrower risk range, or a category
\* constraint added to a request without one, never increases the number of
\* candidates.  In an idle state this is stated of the filter for every
\* amount, horizon, range and sub-range; in a returned state, of the
\* candidate set the request was actually given.
C7_FilterMonotonic ==
    /\ pc = "idle" =>
           \A a \in Amounts, h \in {1, 3}, c \in CategoryPreferences :
           \A lo \in 1..6 : \A hi \in lo..6 :
           \A count \in {Len(CandidateFilter(a, h, lo, hi, c))} :
               /\ count <= Len(CandidateFilter(a, h, lo, hi, ""))
               /\ \A lo2 \in lo..hi : \A hi2 \in lo2..hi :
                      Len(CandidateFilter(a, h, lo2, hi2, c)) <= count
    /\ (pc = "returned" /\ out.raised = "none") =>
           /\ \A lo2 \in ReqMinRisk..ReqMaxRisk : \A hi2 \in lo2..ReqMaxRisk :
                  Len(CandidateFilter(req.investment_amount, req.horizon,
                                      lo2, hi2, req.category_preference))
                      <= Len(out.call.df_filtered)
           /\ req.category_preference = "" =>
                  \A c \in CategoryPreferences \cup CategoryColumns :
                      Len(CandidateFilter(req.investment_amount, req.horizon,
                                          ReqMinRisk, ReqMaxRisk, c))
                          <= Len(out.call.df_filtered)

\* A request without category has returned whose candidate set shrinks
\* under a narrower risk range and also under an added category.
C7_Witness ==
    /\ pc = "returned" /\ out.raised = "none"
    /\ req.category_preference = ""
    /\ Len(out.call.df_filtered) >= 2
    /\ Len(CandidateFilter(req.investment_amount, req.horizon, ReqMinRisk,
                           ReqMinRisk, "")) < Len(out.call.df_filtered)
    /\ Len(CandidateFilter(req.investment_amount, req.horizon, ReqMinRisk,
                           ReqMaxRisk, "Equity")) < Len(out.call.df_filtered)

\* The request in hand is the scenario's: generate_investment_plan with
\* moderate risk tolerance, no category and a loaded horizon.
ScenarioRequest ==
    /\ PlanReturned
    /\ req.risk_tolerance = "moderate"
    /\ req.category_preference = ""
    /\ TargetCol(req.horizon) \in {"return_1yr", "return_3yr"}

\* C8 as stated: over the three tied funds in any order, the AMC "Y" fund
\* is the complementary (second) pick.
C8_YIsSecond ==
    ScenarioRequest
        => /\ out.plan.status = "success"
           /\ Len(out.plan.recommendations) = 2
           /\ out.plan.recommendations[2].amc_name = "Y"

\* C8 amended: the first fund of the universe is the best pick; the AMC "Y"
\* fund is the second pick whenever an AMC "X" fund comes first, and when
\* the AMC "Y" fund comes first it is the best pick and the second pick is
\* the AMC "X" fund of risk 3.
C8_YIsSecondUnlessFirst ==
    ScenarioRequest
        => /\ out.plan.status = "success"
           /\ Len(out.plan.recommendations) = 2
           /\ out.plan.recommendations[1].scheme_name = df[1].scheme_name
           /\ IF df[1].amc_name = "Y"
              THEN /\ out.plan.recommendations[2].amc_name = "X"
                   /\ out.plan.recommendations[2].risk_level = 3
              ELSE out.plan.recommendations[2].amc_name = "Y"

\* The scenario has run with the risk-4 AMC "X" fund first and the AMC "Y"
\* fund last.
C8_Witness ==
    /\ ScenarioRequest
    /\ df[1].risk_level = 4 /\ df[3].amc_name = "Y"
    /\ out.plan.status = "success"
    /\ out.plan.recommendations[2].amc_name = "Y"

\* The request in hand asks for 5000 with a loaded horizon and a documented
\* risk tolerance.
Request5000 ==
    /\ pc = "returned"
    /\ req.investment_amount = 5000
    /\ ValidRequest

\* C9 as stated: with amount=5000 and every min_sip above 2500, all funds
\* are filtered out and the outcome is the insufficient-candidates result.
C9_MinSipAbove2500 ==
    (Request5000 /\ \A i \in 1..Len(df) : df[i].min_sip > 2500)
        => /\ out.call.df_filtered = <<>>
           /\ out.call.message = "Insufficient funds match your criteria"

\* C9 amended: with amount=5000 and every min_sip and every min_lumpsum
\* above 2500, all funds are filtered out and the outcome is the
\* insufficient-candidates result.
C9_BothMinimumsAbove2500 ==
    (Request5000 /\ \A i \in 1..Len(df) :
                        df[i].min_sip > 2500 /\ df[i].min_lumpsum > 2500)
        => /\ out.call.df_filtered = <<>>
           /\ out.call.message = "Insufficient funds match your criteria"
           /\ out.call.picks = <<>>
           /\ req.api = "plan" => out.plan.status = "error"

\* Two unaffordable funds whose risk level, category and returns would pass
\* the other steps have been filtered out.
C9_Witness ==
    /\ Request5000
    /\ Len(df) >= 2
    /\ \A i \in 1..Len(df) : df[i].min_sip > 2500 /\ df[i].min_lumpsum > 2500
    /\ \E i \in 1..Len(df) : df[i].risk_level \in ReqMinRisk..ReqMaxRisk
    /\ out.call.message = "Insufficient funds match your criteria"

\* The smallest and largest of the five inputs of a row's composite score.
ScoreInputs(row) ==
    {row.predicted_return, df[row.idx].risk_adjusted_score,
     df[row.idx].stability_score, df[row.idx].cost_efficiency,
     df[row.idx].rating}

\* C10: the five weights of the composite score sum to 1.0 (100
\* hundredths); hence every composite score lies between the smallest and
\* the largest of its five inputs, and equals the input when all five agree.
C10_WeightsSumToOne ==
    /\ WeightSum = 100
    /\ pc = "returned" =>
           \A k \in 1..Len(out.call.top_funds) :
               LET row == out.call.top_funds[k]
               IN  /\ \E x \in ScoreInputs(row) :
                          100 * x <= row.comprehensive_score
                   /\ \E x \in ScoreInputs(row) :
                          row.comprehensive_score <= 100 * x

\* A fund whose five inputs agree has been scored.
C10_Witness ==
    /\ pc = "returned"
    /\ \E k \in 1..Len(out.call.top_funds) :
           /\ Cardinality(ScoreInputs(out.call.top_funds[k])) = 1
           /\ 100 * out.call.top_funds[k].predicted_return
                  = out.call.top_funds[k].comprehensive_score

\* C11: for any two funds a and b of one shortlist that the selector scores
\* (two funds or more), risk_diff, amc_diff and size_diff_norm of a against b
\* equal those of b against a.
C11_SubScoresSymmetric ==
    (/\ pc = "returned" /\ out.call.selector_called
     /\ Len(out.call.top_funds) >= 2) =>
        \A j, k \in 1..Len(out.call.top_funds) :
            LET a == df[out.call.top_funds[j].idx]
                b == df[out.call.top_funds[k].idx]
            IN  /\ RiskDiff(a, b) = RiskDiff(b, a)
                /\ AmcDiff(a, b) = AmcDiff(b, a)
                /\ SizeDiffNorm(a, b, out.call.top_funds)
                       = SizeDiffNorm(b, a, out.call.top_funds)

\* A shortlist holds two funds of different risk level, AMC and size whose
\* normalised size difference is not clamped.
C11_Witness ==
    /\ pc = "returned" /\ out.call.selector_called
    /\ \E j, k \in 1..Len(out.call.top_funds) :
           LET a == df[out.call.top_funds[j].idx]
               b == df[out.call.top_funds[k].idx]
           IN  /\ RiskDiff(a, b) > 0
               /\ AmcDiff(a, b) = 1
               /\ SizeDiffNorm(a, b, out.call.top_funds) > 0
               /\ SizeDiffNorm(a, b, out.call.top_funds) < 1000

\* C12 as stated: in every successful plan each of the two funds is
\* allocated exactly investment_amount/2 at 50.0 percent, and the allocated
\* amounts of the plan sum to the requested amount.
C12_PlanAllocatesHalf ==
    (PlanReturned /\ out.plan.status = "success") =>
        /\ \A k \in 1..Len(out.plan.recommendations) :
               /\ 2 * out.plan.recommendations[k].suggested_allocation
                      = req.investment_amount
               /\ out.plan.recommendations[k].allocation_percentage = 50
        /\ out.plan.recommendations[1].suggested_allocation
               + out.plan.recommendations[2].suggested_allocation
               = req.investment_amount

\* C12 amended: in every successful plan each of the two rows of the
\* returned frame is allocated exactly investment_amount/2 at 50.0 percent;
\* the plan reports each amount rounded to a whole number, a half to the
\* even neighbour, so the reported amounts sum to the requested amount
\* exactly when investment_amount/2 is a whole number.
C12_FrameAllocatesHalf ==
    (PlanReturned /\ out.plan.status = "success") =>
        /\ Len(out.call.picks) = 2
        /\ \A k \in 1..2 :
               /\ out.call.picks[k].allocated
               /\ out.call.picks[k].suggested_allocation.den
                      * req.investment_amount
                      = 2 * out.call.picks[k].suggested_allocation.num
               /\ out.call.picks[k].allocation_percentage = 50
               /\ out.plan.recommendations[k].allocation_percentage = 50
        /\ LET shown == [k \in 1..2 |->
                            out.plan.recommendations[k].suggested_allocation]
           IN  IF req.investment_amount % 2 = 0
               THEN \A k \in 1..2 : 2 * shown[k] = req.investment_amount
               ELSE /\ shown[1] = shown[2]
                    /\ shown[1] % 2 = 0
                    /\ 2 * shown[1] \in {req.investment_amount - 1,
                                        req.investment_amount + 1}

\* A successful plan for an odd amount.
C12_Witness ==
    /\ PlanReturned /\ out.plan.status = "success"
    /\ req.investment_amount % 2 = 1
    /\ out.plan.recommendations[1].suggested_allocation
           + out.plan.recommendations[2].suggested_allocation
           # req.investment_amount

\* The four filter conditions of the request in hand, each stated on one row
\* of the universe.
AffordableRow(i) ==
    \/ 2 * df[i].min_sip <= req.investment_amount
    \/ 2 * df[i].min_lumpsum <= req.investment_amount

InRiskBand(i) == df[i].risk_level \in ReqMinRisk..ReqMaxRisk

InCategory(i) ==
    req.category_preference \in {"Equity", "Hybrid", "Debt", "Other"}
        => req.category_preference \in df[i].category

CompleteRow(i) == req.horizon \notin df[i].missing

Range(s) == {s[k] : k \in 1..Len(s)}

\* A call that ran all four narrowing steps has returned.
FilterRan ==
    /\ pc = "returned" /\ out.call.raised = "none"
    /\ out.call.steps = FilterSteps

\* C14: the affordability step keeps a fund if and only if min_sip <=
\* amount/2 or min_lumpsum <= amount/2: a fund with both minimums above
\* amount/2 is never in the candidate set, and a fund within either bound is
\* never removed by this step.
C14_AffordabilityIff ==
    /\ (pc = "returned" /\ out.call.steps = <<"affordability">>) =>
           Range(out.call.df_filtered)
               = {i \in 1..Len(df) : AffordableRow(i)}
    /\ FilterRan =>
           \A i \in 1..Len(df) :
               /\ ~AffordableRow(i) => i \notin Range(out.call.df_filtered)
               /\ (AffordableRow(i) /\ InRiskBand(i) /\ InCategory(i)
                       /\ CompleteRow(i))
                      => i \in Range(out.call.df_filtered)

\* The affordability step alone has run over a universe with a fund that
\* only one of the two bounds keeps and a fund that both bounds reject.
C14_Witness ==
    /\ pc = "returned" /\ out.call.steps = <<"affordability">>
    /\ \E i \in Range(out.call.df_filtered) :
           2 * df[i].min_lumpsum > req.investment_amount
    /\ \E i \in 1..Len(df) : i \notin Range(out.call.df_filtered)

\* C15: the risk-band step keeps a fund if and only if its risk_level lies
\* in the inclusive range of the requested tolerance (conservative [1,3],
\* moderate [3,5], aggressive [5,6]); funds of level 3 pass under
\* conservative and moderate, funds of level 5 under moderate and aggressive.
C15_RiskBandIff ==
    /\ FilterRan =>
           \A i \in 1..Len(df) :
               (AffordableRow(i) /\ InCategory(i) /\ CompleteRow(i)) =>
                   (i \in Range(out.call.df_filtered) <=> InRiskBand(i))
    /\ pc = "returned" =>
           \A i \in 1..Len(df) :
               LET kept(label) ==
                       i \in Range(RiskStep(AllRows, risk_mapping[label][1],
                                            risk_mapping[label][2]))
               IN  /\ df[i].risk_level = 3 =>
                          kept("conservative") /\ kept("moderate")
                   /\ df[i].risk_level = 5 =>
                          kept("moderate") /\ kept("aggressive")

\* A moderate request keeps a fund of level 3 and a fund of level 5 and
\* drops a fund outside the range that passes the other three conditions.
C15_Witness ==
    /\ FilterRan /\ req.risk_tolerance = "moderate"
    /\ \E i, j \in Range(out.call.df_filtered) :
           df[i].risk_level = 3 /\ df[j].risk_level = 5
    /\ \E i \in 1..Len(df) :
           /\ AffordableRow(i) /\ InCategory(i) /\ CompleteRow(i)
           /\ i \notin Range(out.call.df_filtered)

\* C16: with a category preference that names a category flag only funds
\* with that flag remain; with a preference that names no flag the category
\* step leaves the candidate set unchanged and raises no error.
C16_CategoryStep ==
    (pc = "returned" /\ ValidRequest) =>
        /\ out.call.raised = "none" /\ out.call.steps = FilterSteps
        /\ LET others == {i \in 1..Len(df) :
                             AffordableRow(i) /\ InRiskBand(i)
                                 /\ CompleteRow(i)}
           IN  IF req.category_preference
                      \in {"Equity", "Hybrid", "Debt", "Other"}
               THEN Range(out.call.df_filtered)
                        = {i \in others :
                              req.category_preference \in df[i].category}
               ELSE Range(out.call.df_filtered) = others

\* A preference that names no flag has left two funds or more in the
\* candidate set, none of which carries a flag of that name.
C16_Witness ==
    /\ FilterRan /\ req.category_preference = "Gold"
    /\ Len(out.call.df_filtered) >= 2

\* A matching preference has dropped a fund that passes the other three
\* conditions.
C16_WitnessMatching ==
    /\ FilterRan /\ req.category_preference = "Equity"
    /\ out.call.df_filtered # <<>>
    /\ \E i \in 1..Len(df) :
           /\ AffordableRow(i) /\ InRiskBand(i) /\ CompleteRow(i)
           /\ i \notin Range(out.call.df_filtered)

\* C17: every fund returned in a successful recommendation is affordable at
\* amount/2, has its risk level inside the tolerance's range, carries the
\* preferred category flag when a matching preference was given, and has a
\* historical return for the requested horizon.
C17_PicksPassAllFilters ==
    (pc = "returned" /\ out.call.raised = "none" /\ out.call.picks # <<>>) =>
        \A k \in 1..Len(out.call.picks) :
            LET i == out.call.picks[k].idx
            IN  /\ i \in 1..Len(df)
                /\ AffordableRow(i)
                /\ InRiskBand(i)
                /\ InCategory(i)
                /\ CompleteRow(i)

\* A recommendation is returned from a universe that also holds a fund
\* failing one of the conditions.
C17_Witness ==
    /\ pc = "returned" /\ out.call.raised = "none"
    /\ Len(out.call.picks) = 2
    /\ req.category_preference = "Equity"
    /\ \E i \in 1..Len(df) : ~CompleteRow(i) \/ ~InRiskBand(i)

\* One narrowing step of the request in hand, by name.
ApplyStep(step, rows) ==
    CASE step = "affordability" ->
             AffordabilityStep(rows, req.investment_amount)
      [] step = "risk" ->
             RiskStep(rows, risk_mapping[req.risk_tolerance][1],
                      risk_mapping[req.risk_tolerance][2])
      [] step = "category" -> CategoryStep(rows, req.category_preference)
      [] OTHER -> CompletenessStep(rows, req.horizon)

\* The four steps applied to the whole universe in the given order.
ApplyInOrder(order) ==
    ApplyStep(order[4],
              ApplyStep(order[3],
                        ApplyStep(order[2], ApplyStep(order[1], AllRows))))

\* C18: the candidate set does not depend on the order of the four steps:
\* every permutation of them yields the set the call computed.  The steps
\* do not depend on top_n, so the requests of generate_investment_plan
\* cover every universe, amount, horizon, tolerance and preference.
C18_OrderIndependent ==
    (FilterRan /\ req.api = "plan") =>
        \A first \in Range(FilterSteps) :
        \A second \in Range(FilterSteps) \ {first} :
        \A third \in Range(FilterSteps) \ {first, second} :
        \A fourth \in Range(FilterSteps) \ {first, second, third} :
            ApplyInOrder(<<first, second, third, fourth>>)
                = out.call.df_filtered

\* The call kept a fund and dropped two funds, each by a different step
\* only.
C18_Witness ==
    /\ FilterRan /\ out.call.df_filtered # <<>>
    /\ \E i, j \in 1..Len(df) :
           /\ ~AffordableRow(i) /\ InRiskBand(i)
           /\ AffordableRow(j) /\ ~InRiskBand(j)

\* The candidates of the request in hand whose prediction does not raise:
\* every required feature column is a column of the dataset and the
\* predictor accepts the row.
Predictable ==
    {i \in Range(out.call.df_filtered) :
        /\ \A k \in 1..Len(feature_columns[TargetCol(req.horizon)]) :
               feature_columns[TargetCol(req.horizon)][k] \in DatasetColumns
        /\ ~df[i].bad_features}

\* C19: a candidate whose prediction raises (a required feature column with
\* no dataset-wide median included) is left out of scoring without failing
\* the call, and every other candidate is scored with its own predicted
\* return; when fewer than 2 predictions succeed the outcome is the
\* prediction-failure result and the selector is not run.
C19_SkipFailedPredictions ==
    (FilterRan /\ Len(out.call.df_filtered) >= 2) =>
        IF Cardinality(Predictable) < 2
        THEN /\ out.call.message = "Unable to generate predictions"
             /\ ~out.call.selector_called
             /\ out.call.picks = <<>>
             /\ req.api = "plan" => out.plan.status = "error"
        ELSE /\ out.call.selector_called
             /\ {out.call.top_funds[k].idx :
                    k \in 1..Len(out.call.top_funds)} \subseteq Predictable
             /\ Len(out.call.top_funds)
                    = Min2(req.top_n, Cardinality(Predictable))
             /\ \A k \in 1..Len(out.call.top_funds) :
                    out.call.top_funds[k].predicted_return
                        = df[out.call.top_funds[k].idx].pred[req.horizon]

\* One candidate's prediction raised and the other two were scored.
C19_Witness ==
    /\ FilterRan /\ out.call.selector_called
    /\ Len(out.call.df_filtered) = 3
    /\ Cardinality(Predictable) = 2
    /\ Len(out.call.top_funds) = 2

\* A required feature column is not in the dataset: every candidate's
\* prediction raised and the call ended with the prediction-failure result.
C19_WitnessMissingColumn ==
    /\ FilterRan /\ Len(out.call.df_filtered) >= 2
    /\ \A i \in Range(out.call.df_filtered) : ~df[i].bad_features
    /\ Predictable = {}
    /\ out.call.message = "Unable to generate predictions"

\* comprehensive_score of row i with the weights written out, in hundredths.
CompositeScore(i) ==
    40 * df[i].pred[req.horizon] + 20 * df[i].risk_adjusted_score
        + 15 * df[i].stability_score + 15 * df[i].cost_efficiency
        + 10 * df[i].rating

\* C20: the shortlist handed to the selector holds the min(N, number of
\* scored candidates) candidates of highest composite score (0.40, 0.20,
\* 0.15, 0.15, 0.10 over predicted_return, risk_adjusted_score,
\* stability_score, cost_efficiency, rating), in descending order of score;
\* N is 10 when the caller gives none.
C20_ShortlistIsTopN ==
    /\ (pc = "returned" /\ req.api = "plan") => req.top_n = 10
    /\ (pc = "returned" /\ out.call.selector_called) =>
        LET top_funds == out.call.top_funds
            listed == {top_funds[k].idx : k \in 1..Len(top_funds)}
        IN  /\ Len(top_funds) = Min2(req.top_n, Cardinality(Predictable))
            /\ Cardinality(listed) = Len(top_funds)
            /\ listed \subseteq Predictable
            /\ \A k \in 1..Len(top_funds) :
                   top_funds[k].comprehensive_score
                       = CompositeScore(top_funds[k].idx)
            /\ \A k \in 1..(Len(top_funds) - 1) :
                   top_funds[k].comprehensive_score
                       >= top_funds[k + 1].comprehensive_score
            /\ \A i \in Predictable \ listed, j \in listed :
                   CompositeScore(i) <= CompositeScore(j)

\* Three candidates were scored, N is 2, and the candidate left out comes
\* before a shortlisted one in the universe.
C20_Witness ==
    /\ pc = "returned" /\ out.call.selector_called
    /\ req.top_n = 2
    /\ Cardinality(Predictable) = 3
    /\ \E i \in Predictable :
           /\ \A k \in 1..2 : out.call.top_funds[k].idx # i
           /\ i < out.call.top_funds[1].idx
    /\ out.call.top_funds[1].comprehensive_score
           > out.call.top_funds[2].comprehensive_score

\* What the request of thread t returns when it runs alone over the system
\* as it is now.
Alone(t) ==
    IF req[t].api = "plan"
    THEN GenerateInvestmentPlan(req[t].investment_amount, req[t].horizon,
             req[t].risk_tolerance, req[t].category_preference)
    ELSE LET res == GetDiversifiedRecommendations(req[t].investment_amount,
                        req[t].horizon, req[t].risk_tolerance,
                        req[t].category_preference, req[t].top_n)
         IN  [call |-> res, raised |-> res.raised, plan |-> NoPlan]

\* No step of a request changes the universe, the predictors or the
\* feature-column lists.
SharedStateUntouched ==
    df' = df /\ models' = models /\ feature_columns' = feature_columns

\* C13: no recommendation request, successful or failing, changes the fund
\* universe, the loaded predictors or their feature-column lists, and under
\* every interleaving of concurrent requests each request returns what it
\* returns when run alone.
C13_RequestsDoNotInterfere ==
    /\ [][SharedStateUntouched]_vars
    /\ [](\A t \in Threads : pc[t] = "returned" => out[t] = Alone(t))

\* One thread has returned a successful plan that it built while another
\* thread, serving a different request, was between its steps.
C13_Witness ==
    \E t, u \in Threads :
        /\ pc[t] = "returned" /\ req[t].api = "plan"
        /\ out[t].plan.status = "success"
        /\ pc[u] \in {"narrowed", "scored"}
        /\ req[u] # req[t]

\* C21: the first fund of every successful recommendation is the head of
\* the shortlist: its composite score is greater than or equal to that of
\* every other scored candidate of the request, whatever the
\* diversification scores are.
C21_FirstIsShortlistHead ==
    (pc = "returned" /\ out.call.raised = "none" /\ out.call.picks # <<>>) =>
        /\ out.call.picks[1].idx = out.call.top_funds[1].idx
        /\ out.call.picks[1].comprehensive_score
               = CompositeScore(out.call.picks[1].idx)
        /\ \A i \in Predictable :
               CompositeScore(i) <= CompositeScore(out.call.picks[1].idx)

\* Three candidates were scored, the first pick has the strictly highest
\* score and lies last in the universe.
C21_Witness ==
    /\ pc = "returned" /\ out.call.raised = "none"
    /\ Len(out.call.picks) = 2
    /\ Cardinality(Predictable) = 3
    /\ \A i \in Predictable \ {out.call.picks[1].idx} :
           /\ CompositeScore(i) < CompositeScore(out.call.picks[1].idx)
           /\ i < out.call.picks[1].idx

\* diversification_score of row i against row b over the shortlist, with
\* the weights written out, in 1/10000 (category_diff counts in halves,
\* size_diff_norm in thousandths).
DiversificationScore(i, b, top_funds) ==
    3000 * Abs(df[i].risk_level - df[b].risk_level)
        + 1500 * CalculateCategoryDifference(df[i], df[b])
        + 2000 * (IF df[i].amc_name # df[b].amc_name THEN 1 ELSE 0)
        + 2 * SizeDiffNorm(df[i], df[b], top_funds)

\* C22: the second fund is the shortlisted fund other than best whose
\* diversification_score = 0.3*risk_diff + 0.3*category_diff + 0.2*amc_diff
\* + 0.2*size_diff_norm against best is the maximum; among several funds of
\* maximum score the first in shortlist order is chosen.
C22_SecondIsMostDiverse ==
    (/\ pc = "returned" /\ out.call.selector_called
     /\ Len(out.call.top_funds) >= 2) =>
        LET top_funds == out.call.top_funds
            b == top_funds[1].idx
        IN  /\ Len(out.call.picks) = 2
            /\ \E k \in 2..Len(top_funds) :
                   /\ out.call.picks[2].idx = top_funds[k].idx
                   /\ \A j \in 2..Len(top_funds) :
                          DiversificationScore(top_funds[j].idx, b, top_funds)
                              <= DiversificationScore(top_funds[k].idx, b,
                                                      top_funds)
                   /\ \A j \in 2..(k - 1) :
                          DiversificationScore(top_funds[j].idx, b, top_funds)
                              < DiversificationScore(top_funds[k].idx, b,
                                                     top_funds)

\* Two funds other than best share the maximum diversification score and
\* the earlier one in the shortlist is the second pick.
C22_Witness ==
    /\ pc = "returned" /\ out.call.selector_called
    /\ Len(out.call.top_funds) = 3 /\ Len(out.call.picks) = 2
    /\ DiversificationScore(out.call.top_funds[2].idx,
                            out.call.top_funds[1].idx, out.call.top_funds)
           = DiversificationScore(out.call.top_funds[3].idx,
                                  out.call.top_funds[1].idx,
                                  out.call.top_funds)
    /\ out.call.picks[2].idx = out.call.top_funds[2].idx

\* The fund of lower composite score is the second pick because its
\* diversification score is higher.
C22_WitnessOvertakes ==
    /\ pc = "returned" /\ out.call.selector_called
    /\ Len(out.call.top_funds) = 3 /\ Len(out.call.picks) = 2
    /\ out.call.picks[2].idx = out.call.top_funds[3].idx
    /\ out.call.top_funds[3].comprehensive_score
           < out.call.top_funds[2].comprehensive_score

\* C23: calculate_category_difference returns 1.0 when the main categories
\* of the two funds differ, 0.5 when they are the same and the funds' true
\* sub-category flags are disjoint, 0.0 when they are the same and the funds
\* share a true sub-category flag, and nothing else (the value is kept in
\* halves: 2, 1, 0).
C23_CategoryDifferenceValues ==
    pc = "returned" =>
        /\ out.raised = "none"
        /\ out.category_diff \in {0, 1, 2}
        /\ out.category_diff = 2 <=> df[1].category # df[2].category
        /\ out.category_diff = 1 <=>
               /\ df[1].category = df[2].category
               /\ df[1].sub_category \cap df[2].sub_category = {}
        /\ out.category_diff = 0 <=>
               /\ df[1].category = df[2].category
               /\ df[1].sub_category \cap df[2].sub_category # {}

\* Two funds of one main category with non-empty, disjoint sub-category
\* flags got 0.5.
C23_Witness ==
    /\ pc = "returned" /\ out.category_diff = 1
    /\ df[1].category = {"Debt"} /\ df[2].category = {"Debt"}
    /\ df[1].sub_category # {} /\ df[2].sub_category # {}

\* C24: when neither fund has a main category flag, the call does not fail
\* and does not return 1.0: it returns 0.5 when the funds' sub-category
\* flags are disjoint and 0.0 when they share one.
C24_NoMainFallsThrough ==
    (pc = "returned" /\ df[1].category = {} /\ df[2].category = {}) =>
        /\ out.raised = "none"
        /\ out.category_diff # 2
        /\ out.category_diff =
               IF df[1].sub_category \cap df[2].sub_category = {}
               THEN 1 ELSE 0

\* Two funds without main category that share a sub-category got 0.0.
C24_Witness ==
    /\ pc = "returned" /\ df[1].category = {} /\ df[2].category = {}
    /\ df[1].sub_category \cap df[2].sub_category # {}
    /\ out.category_diff = 0

\* The fund sizes of the shortlist in hand.
ShortlistSizes ==
    [k \in 1..Len(out.call.top_funds) |->
        df[out.call.top_funds[k].idx].fund_size]

\* C25: for every shortlist of two or more funds and every candidate in it,
\* size_diff_norm is a defined value in [0, 1] (here 0..1000 thousandths):
\* the divisor, the shortlist-wide standard deviation of fund size plus the
\* epsilon, is positive even when all sizes are equal, and the quotient is
\* clamped to 1.
C25_SizeDiffNormInUnitRange ==
    (/\ pc = "returned" /\ out.call.selector_called
     /\ Len(out.call.top_funds) >= 2) =>
        /\ StdMilli(ShortlistSizes) >= 0
        /\ StdMilli(ShortlistSizes) + Epsilon > 0
        /\ \A k \in 1..Len(out.call.top_funds) :
           \A v \in {SizeDiffNorm(df[out.call.top_funds[k].idx],
                                  df[out.call.top_funds[1].idx],
                                  out.call.top_funds)} :
               /\ v >= 0 /\ v <= 1000
               /\ v = 1000 <=>
                      1000 * Abs(ShortlistSizes[k] - ShortlistSizes[1])
                          >= StdMilli(ShortlistSizes) + Epsilon
               /\ (\A j \in 1..Len(ShortlistSizes) :
                       ShortlistSizes[j] = ShortlistSizes[1]) => v = 0

\* A shortlist of three funds of one size: the standard deviation is 0.
C25_Witness ==
    /\ pc = "returned" /\ out.call.selector_called
    /\ Len(out.call.top_funds) = 3
    /\ \A j \in 1..3 : ShortlistSizes[j] = ShortlistSizes[1]
    /\ StdMilli(ShortlistSizes) = 0

\* C26: given a shortlist of exactly one fund, select_diversified_pair does
\* not fail and returns just that fund, as it was given, with no second
\* pick.
C26_SingleFundFallback ==
    (/\ pc = "returned" /\ out.call.selector_called
     /\ Len(out.call.top_funds) = 1) =>
        /\ out.call.raised = "none"
        /\ out.call.picks = <<Unallocated(out.call.top_funds[1])>>

\* The selector was given one fund out of two or more scored candidates.
C26_Witness ==
    /\ pc = "returned" /\ out.call.selector_called
    /\ Len(out.call.top_funds) = 1
    /\ Cardinality(Predictable) >= 2
    /\ Len(out.call.picks) = 1

\* The required columns of the request in hand.
RequiredCols == feature_columns[TargetCol(req.horizon)]

\* The numbers of column col of the dataset, as a set of (row, value).
ColumnNumbers(col) ==
    {<<i, df[i][col][1]>> : i \in {j \in 1..Len(df) : df[j][col] # <<>>}}

\* The k-th smallest number of the column: fewer than k numbers lie below
\* it and at least k numbers are not above it.
OrderStatistic(col, k) ==
    CHOOSE v \in {p[2] : p \in ColumnNumbers(col)} :
        /\ Cardinality({p \in ColumnNumbers(col) : p[2] < v}) < k
        /\ Cardinality({p \in ColumnNumbers(col) : p[2] <= v}) >= k

\* Twice the dataset-wide median of the column, <<>> when it has no number.
DatasetMedianHalves(col) ==
    LET n == Cardinality(ColumnNumbers(col))
    IN  IF n = 0 THEN <<>>
        ELSE <<OrderStatistic(col, (n + 1) \div 2)
                   + OrderStatistic(col, n \div 2 + 1)>>

\* C27: for every fund record and horizon with a loaded predictor, the
\* assembled vector has one entry per required column, in the predictor's
\* column order; the entry is the fund's own value when the fund has the
\* field (whatever the value) and the dataset-wide median of the column
\* when the fund lacks the field.
C27_FeatureVector ==
    (pc = "returned" /\ out.raised = "none") =>
        /\ TargetCol(req.horizon) \in models
        /\ Len(out.fund_features) = Len(RequiredCols)
        /\ \A k \in 1..Len(RequiredCols) :
               out.fund_features[k] =
                   IF RequiredCols[k] \in DOMAIN req.fund_data
                   THEN IF req.fund_data[RequiredCols[k]] = <<>> THEN <<>>
                        ELSE <<2 * req.fund_data[RequiredCols[k]][1]>>
                   ELSE DatasetMedianHalves(RequiredCols[k])

\* A vector was assembled in the order fund_size, risk_level from a fund
\* that lacks fund_size and has a NaN risk_level: the first entry is the
\* median of an even number of sizes, the second entry is the fund's NaN.
C27_Witness ==
    /\ pc = "returned" /\ out.raised = "none"
    /\ RequiredCols = <<"fund_size", "risk_level">>
    /\ DOMAIN req.fund_data = {"risk_level"}
    /\ req.fund_data["risk_level"] = <<>>
    /\ Cardinality(ColumnNumbers("fund_size")) = 2
    /\ out.fund_features = <<<<7>>, <<>>>>

\* C28: two executions of generate_investment_plan with the same universe,
\* predictors and request arguments return identical results (the same
\* funds in the same order, the same scores and allocations), whatever was
\* served in between: the answer of every request equals the answer the
\* same request got the first time it was served.
C28_RepeatedRequestSameAnswer ==
    pc = "returned" =>
        /\ req \in DOMAIN out.first
        /\ out.first[req] = Answer(out.result, out.raised)

\* A plan request that was the first one served is served again after two
\* other requests, and answers with two recommended funds.
C28_Witness ==
    /\ pc = "returned" /\ out.repeat
    /\ req.api = "plan"
    /\ Len(out.order) >= 3 /\ out.order[1] = req
    /\ out.raised = "none" /\ out.result.status = "success"
    /\ Len(out.result.recommendations) = 2

\* generate_investment_plan returned to the handler with a status other
\* than 'success'.
PlanNotSuccess ==
    /\ pc.at = "returned" /\ pc.ml_system_set
    /\ out.raised = "none" /\ out.plan.status # "success"

\* C29: in the /api/recommend handler, whenever generate_investment_plan
\* returns a status other than 'success', the client receives an HTTP 400
\* error whose detail is the plan's message; a 500 error is produced only
\* for unexpected exceptions.
C29_NonSuccessPlanIs400 ==
    /\ PlanNotSuccess =>
          /\ out.response.status_code = 400
          /\ out.response.detail = out.plan.message
    /\ (pc.at = "returned" /\ out.response.status_code = 500) =>
          (~pc.ml_system_set \/ out.raised # "none")

\* What the handler does: the HTTPException of line 315 is raised inside
\* the try block and is caught by except Exception, so a plan that is not
\* a success is answered with HTTP 500, its message behind the prefix of
\* line 347; no response of the handler has status 400.
C29_NonSuccessPlanIs500 ==
    /\ PlanNotSuccess =>
          /\ out.response.status_code = 500
          /\ out.response.detail =
                 ErrorDetail("HTTPException", out.plan.message)
    /\ pc.at = "returned" => out.response.status_code \in {200, 500}

\* The handler answered a plan with too few candidates.
C29_Witness ==
    /\ PlanNotSuccess
    /\ out.plan.message = "Insufficient funds match your criteria"
    /\ out.response.status_code = 500

\* C30: after any sequence of model-loading steps, every horizon target
\* registered in models is also registered in feature_columns, so a
\* prediction for a horizon that passes the 'model available' check never
\* fails on the feature-column lookup.
C30_ModelsHaveFeatureColumns ==
    /\ models \subseteq DOMAIN feature_columns
    /\ pc.predicted => out.raised # "KeyError"

\* What the loading code guarantees: a registered target without a column
\* list comes from an artifact that has 'model' and lacks
\* 'feature_columns', and, in DiversifiedMutualFundSystem, only when the
\* dataset lacks the target column, so that the fallback trains nothing.
C30_UnregisteredColumnsOnlyFromIncompleteArtifact ==
    \A target \in models \ DOMAIN feature_columns :
        /\ req[target] = "no_feature_columns"
        /\ pc.class = "DiversifiedMutualFundSystem" =>
               target \notin DOMAIN df[1]

\* A prediction after loading passed the model check and failed on the
\* feature-column lookup.
C30_Witness ==
    /\ pc.predicted /\ out.raised = "KeyError"
    /\ \E target \in models : target \notin DOMAIN feature_columns

====
